---- MODULE Spec2Model ----
(***************************************************************************)
(* Merkle distributor: the claim accounting state machine of               *)
(* programs/merkle-distributor (handle_new_claim, handle_claim_locked)     *)
(* over the distributor accounts, the compressed ClaimStatus accounts and  *)
(* the token vaults.  Every instruction runs as one ledger transaction:    *)
(* a handler that returns Err leaves no trace on the accounts.             *)
(***************************************************************************)
EXTENDS Integers, Sequences, FiniteSets, TLC

\* ------------------------------------------------------------------ bounds

\* Largest amount an instruction argument or a leaf carries.
MaxAmount == 2

\* Last value of the ledger clock.
MaxTime == 4

\* Largest number of tokens ever minted into the vaults.
MaxDeposit == 4

\* Largest number of NewClaim transactions in flight at once.
MaxInflight == 2

\* Largest locked amount the vesting calculator is called with.
MaxLocked == 4

\* Largest value of a u64 counter.  TLC's integers have 31 value bits, so
\* the 64-bit width of the program is modelled by the widest one available.
U64_MAX == 2147483646 + 1

\* ------------------------------------------------------------- identities

\* Public keys.  1 and 2 are recipients; 3 is the key that creates
\* distributors and is no recipient of any tree.
Keys == {1, 2, 3}

\* Airdrop versions: one MerkleDistributor account per (mint, version).
Versions == {0, 1}

\* Address of the compressed ClaimStatus account of a claimant at a
\* distributor: derive_address(["ClaimStatus", claimant, distributor]).
Addresses == Keys \X Versions

\* ---------------------------------------------------------------- hashing

\* hashv is modelled as an injective function into the naturals: distinct
\* inputs have distinct digests (no collisions), and the three uses
\* (leaf payload, prefixed leaf, intermediate node) have disjoint ranges.

\* Number of distinct leaf payloads: keys 1..3, amounts 0..MaxAmount + 1.
PayloadSpan == 4 * ((MaxAmount + 2) * (MaxAmount + 2))

\* Mutant: amount_locked is left out of the hashed payload.
HashPayload_without_locked(claimant, amount_unlocked, amount_locked) ==
    1 + (claimant * (MaxAmount + 2) + amount_unlocked) * (MaxAmount + 2)

\* hashv(&[claimant, amount_unlocked.to_le_bytes(), amount_locked.to_le_bytes()])
HashPayload(claimant, amount_unlocked, amount_locked) ==
    1 + (claimant * (MaxAmount + 2) + amount_unlocked) * (MaxAmount + 2) + amount_locked

\* hashv(&[LEAF_PREFIX, node])
HashLeafPrefixed(node) == PayloadSpan + node

\* The leaf of (claimant, amount_unlocked, amount_locked).
LeafHash(claimant, amount_unlocked, amount_locked) ==
    HashLeafPrefixed(HashPayload(claimant, amount_unlocked, amount_locked))

\* hashv(&[INTERMEDIATE_PREFIX, lo, hi]) of a sorted pair lo <= hi.
HashIntermediate(lo, hi) == 2 * PayloadSpan + 1 + ((hi * (hi + 1)) \div 2) + lo

\* Sibling combination: the two digests are sorted before hashing.
HashSiblings(a, b) ==
    IF a <= b THEN HashIntermediate(a, b) ELSE HashIntermediate(b, a)

\* verify(proof, root, leaf): fold the proof over the leaf, compare to root.
RECURSIVE FoldProof(_, _)
FoldProof(proof, computed) ==
    IF proof = << >> THEN computed
    ELSE FoldProof(Tail(proof), HashSiblings(computed, Head(proof)))

verify(proof, root, leaf) == FoldProof(proof, leaf) = root

\* ------------------------------------------------------------ merkle tree

\* A TreeNode of the airdrop tree: the claimant and its per-category amounts.
TreeNode(claimant, us, ls, uv, lv) ==
    [claimant |-> claimant,
     total_unlocked_staker |-> us, total_locked_staker |-> ls,
     total_unlocked_searcher |-> 0, total_locked_searcher |-> 0,
     total_unlocked_validator |-> uv, total_locked_validator |-> lv]

TreeNode_amount_unlocked(node) ==
    node.total_unlocked_staker + node.total_unlocked_searcher
        + node.total_unlocked_validator

TreeNode_amount_locked(node) ==
    node.total_locked_staker + node.total_locked_searcher
        + node.total_locked_validator

NodeLeaf(node) == LeafHash(node.claimant, TreeNode_amount_unlocked(node), TreeNode_amount_locked(node))

\* One level up: adjacent siblings are combined, an unpaired last node is
\* promoted unchanged.
NextLevel(level) ==
    [i \in 1..((Len(level) + 1) \div 2) |->
        IF 2 * i <= Len(level)
        THEN HashSiblings(level[2 * i - 1], level[2 * i])
        ELSE level[2 * i - 1]]

RECURSIVE LevelRoot(_)
LevelRoot(level) ==
    IF Len(level) = 1 THEN level[1] ELSE LevelRoot(NextLevel(level))

\* The sibling hashes met while climbing from position idx to the root.
RECURSIVE LevelProof(_, _)
LevelProof(level, idx) ==
    IF Len(level) = 1 THEN << >>
    ELSE LET sib == IF idx % 2 = 0 THEN << level[idx - 1] >>
                    ELSE IF idx + 1 <= Len(level) THEN << level[idx + 1] >>
                    ELSE << >>
         IN sib \o LevelProof(NextLevel(level), (idx + 1) \div 2)

TreeLeaves(tree_nodes) == [i \in 1..Len(tree_nodes) |-> NodeLeaf(tree_nodes[i])]

RECURSIVE SumClaims(_)
SumClaims(tree_nodes) ==
    IF tree_nodes = << >> THEN 0
    ELSE TreeNode_amount_unlocked(Head(tree_nodes)) + TreeNode_amount_locked(Head(tree_nodes))
            + SumClaims(Tail(tree_nodes))

\* AirdropMerkleTree::new(tree_nodes)
AirdropMerkleTree(tree_nodes) ==
    [merkle_root |-> LevelRoot(TreeLeaves(tree_nodes)),
     max_total_claim |-> SumClaims(tree_nodes),
     max_num_nodes |-> Len(tree_nodes),
     tree_nodes |-> tree_nodes,
     proof |-> [i \in 1..Len(tree_nodes) |-> LevelProof(TreeLeaves(tree_nodes), i)]]

\* ---------------------------------------------------------------- vesting

\* Mutant: the vested amount keeps growing after end_ts.
vested_amount_uncapped(claim, curr_ts, start_ts, end_ts) ==
    IF curr_ts < start_ts THEN 0
    ELSE IF end_ts <= start_ts THEN claim.locked_amount
    ELSE (claim.locked_amount * (curr_ts - start_ts)) \div (end_ts - start_ts)

\* ClaimStatus::amount_withdrawable(curr_ts, start_ts, end_ts)
vested_amount(claim, curr_ts, start_ts, end_ts) ==
    IF curr_ts < start_ts THEN 0
    ELSE IF curr_ts >= end_ts THEN claim.locked_amount
    ELSE (claim.locked_amount * (curr_ts - start_ts)) \div (end_ts - start_ts)

\* Mutant: what was withdrawn before is not subtracted.
amount_withdrawable_whole(claim, curr_ts, start_ts, end_ts) ==
    vested_amount(claim, curr_ts, start_ts, end_ts)

\* Mutant: the difference is not clamped at zero.
amount_withdrawable_unclamped(claim, curr_ts, start_ts, end_ts) ==
    vested_amount(claim, curr_ts, start_ts, end_ts) - claim.locked_amount_withdrawn

amount_withdrawable(claim, curr_ts, start_ts, end_ts) ==
    LET vested == vested_amount(claim, curr_ts, start_ts, end_ts)
    IN IF vested >= claim.locked_amount_withdrawn
       THEN vested - claim.locked_amount_withdrawn
       ELSE 0

\* u64::checked_add: None is modelled as -1.
None == 0 - 1
checked_add(a, b) == IF a > U64_MAX - b THEN None ELSE a + b

\* ------------------------------------------------------------------ state

VARIABLES
    distributor,    \* version -> MerkleDistributor account, where one exists
    claim_status,   \* address -> compressed ClaimStatus account, where one exists
    vault,          \* version -> amount held by the distributor's token vault
    paid,           \* version -> key -> tokens moved from that vault to the key
    swept,          \* version -> tokens moved from that vault to clawback_receiver
    deposited,      \* version -> tokens ever minted into that vault
    now,            \* Clock::get().unix_timestamp
    inflight,       \* NewClaim transactions signed and sent, not yet processed
    last,           \* the last instruction processed, its signer and its result
    call            \* a call of a library function: its arguments and its result

vars ==
    << distributor, claim_status, vault, paid, swept, deposited, now, inflight, last,
       call >>

\* The accounts and balances an instruction can change.
ledger == << distributor, claim_status, vault, paid, swept >>

\* ------------------------------------------------------------------ inputs

\* Recipient lists for which trees are built: a staker and a validator, as
\* in the integration test, in small amounts.
TreeA == << TreeNode(1, 1, 2, 0, 0), TreeNode(2, 0, 0, 1, 0) >>
TreeB == << TreeNode(1, 0, 1, 0, 0), TreeNode(2, 0, 0, 1, 1) >>
Trees == {TreeA, TreeB}

\* Mutant: the leaf count is sent as max_total_claim.
DistributorArgs_count_as_total(tree_nodes, start_ts, end_ts, clawback_ts, short_total, short_nodes) ==
    LET t == AirdropMerkleTree(tree_nodes)
    IN [root |-> t.merkle_root,
        max_total_claim |-> t.max_num_nodes - short_total,
        max_num_nodes |-> t.max_num_nodes - short_nodes,
        start_vesting_ts |-> start_ts,
        end_vesting_ts |-> end_ts,
        clawback_start_ts |-> clawback_ts]

\* NewDistributor instruction data built from a tree; the two totals are
\* those of the tree less short_total and short_nodes (both 0 for the data
\* the new-distributor command builds).
DistributorArgs(tree_nodes, start_ts, end_ts, clawback_ts, short_total, short_nodes) ==
    LET t == AirdropMerkleTree(tree_nodes)
    IN [root |-> t.merkle_root,
        max_total_claim |-> t.max_total_claim - short_total,
        max_num_nodes |-> t.max_num_nodes - short_nodes,
        start_vesting_ts |-> start_ts,
        end_vesting_ts |-> end_ts,
        clawback_start_ts |-> clawback_ts]

\* The instruction data offered to NewDistributor: a tree with its exact
\* totals, one with max_total_claim below the unlocked amounts of its tree,
\* and one with max_num_nodes below its leaf count.
NewDistributorInputs ==
    {DistributorArgs(TreeA, 1, 3, 4, 0, 0),
     DistributorArgs(TreeA, 1, 3, 4, 3, 0),
     DistributorArgs(TreeB, 1, 3, 4, 0, 1)}

\* Keys that create and administer distributors.
AdminKeys == {2, 3}

\* Merkle proofs a caller may submit: every proof stored in a tree, every
\* prefix of one, and every stored proof with its first entry corrupted.
StoredProofs ==
    UNION {{AirdropMerkleTree(t).proof[i] : i \in 1..Len(t)} : t \in Trees}

ProofInputs ==
    StoredProofs
        \cup UNION {{SubSeq(p, 1, n) : n \in 0..Len(p)} : p \in StoredProofs}
        \cup {[p EXCEPT ![1] = p[1] + 1] : p \in {q \in StoredProofs : q # << >>}}

\* NewClaim instruction data and signer as the claim command builds them
\* from a tree file: the signer's own node and its stored proof.
NodeClaims ==
    UNION {{[claimant |-> t[i].claimant,
             amount_unlocked |-> TreeNode_amount_unlocked(t[i]),
             amount_locked |-> TreeNode_amount_locked(t[i]),
             proof |-> AirdropMerkleTree(t).proof[i],
             address_tree |-> "ADDRESS_TREE_V2"] : i \in 1..Len(t)} : t \in Trees}

\* What a caller may submit to NewClaim: a node's claim, or one that differs
\* from a node's claim in its signer, in one amount, in its proof or in the
\* address tree it references.
NewClaimInputs ==
    NodeClaims
        \cup {[c EXCEPT !.claimant = k] : c \in NodeClaims, k \in Keys}
        \cup {[c EXCEPT !.amount_unlocked = a] : c \in NodeClaims, a \in 0..MaxAmount}
        \cup {[c EXCEPT !.amount_locked = a] : c \in NodeClaims, a \in 0..MaxAmount}
        \cup {[c EXCEPT !.proof = p] : c \in NodeClaims, p \in ProofInputs}
        \cup {[c EXCEPT !.address_tree = "other"] : c \in NodeClaims}

\* --------------------------------------------------------------- new_claim

\* What a handler holds when it returns: its result and the accounts as it
\* has written them in memory so far (the runtime keeps them only on Ok).
Returned(err, d, status, transferred) ==
    [err |-> err, distributor |-> d, status |-> status, transferred |-> transferred]

\* Mutant: the writes of a failed instruction are kept.
Committed_always(r) == TRUE

\* A transaction whose instruction returns Err changes no account.
Committed(r) == r.err = "Ok"

\* Mutant: the handler sees the distributor with clawed_back cleared.
LoadDistributor_cleared(v) == [distributor[v] EXCEPT !.clawed_back = FALSE]

\* ctx.accounts.distributor, as deserialized for the handler.
LoadDistributor(v) == distributor[v]

\* Mutant: a clawed-back distributor is not turned away.
NotClawedBack_unchecked(d) == TRUE

\* require!(!distributor.clawed_back, ClaimExpired)
NotClawedBack(d) == ~d.clawed_back

\* Mutant: the node count is never compared with max_num_nodes.
NodesWithinMax_unchecked(d) == TRUE

\* require!(num_nodes_claimed <= max_num_nodes, MaxNodesExceeded)
NodesWithinMax(d) == d.num_nodes_claimed <= d.max_num_nodes

\* Mutant: every proof is accepted.
ProofVerifies_unchecked(proof, root, claimant, amount_unlocked, amount_locked) == TRUE

\* Mutant: the two amounts are hashed in the other order.
ProofVerifies_swapped(proof, root, claimant, amount_unlocked, amount_locked) ==
    verify(proof, root, LeafHash(claimant, amount_locked, amount_unlocked))

\* The leaf is recomputed from the signer and the two amounts and the proof
\* is verified against distributor.root.
ProofVerifies(proof, root, claimant, amount_unlocked, amount_locked) ==
    verify(proof, root, LeafHash(claimant, amount_unlocked, amount_locked))

\* Mutant: the vault balance is not compared with amount_unlocked.
VaultCovers_unchecked(v, amount_unlocked) == TRUE

\* require!(from.amount >= amount_unlocked, InsufficientUnlockedTokens)
VaultCovers(v, amount_unlocked) == vault[v] >= amount_unlocked

\* Mutant: the account is created whether or not its address is taken.
AddressIsNew_unchecked(address) == TRUE

\* The CPI creates the ClaimStatus account at its derived address, which
\* must not be in the address tree yet.
AddressIsNew(address) == address \notin DOMAIN claim_status

\* Mutant: the new ClaimStatus starts with the unlocked amount as withdrawn.
InitClaimStatus_withdrawn(claimant, amount_unlocked, amount_locked) ==
    [claimant |-> claimant,
     locked_amount |-> amount_locked,
     unlocked_amount |-> amount_unlocked,
     locked_amount_withdrawn |-> amount_unlocked]

\* The ClaimStatus written for a new claim.
InitClaimStatus(claimant, amount_unlocked, amount_locked) ==
    [claimant |-> claimant,
     locked_amount |-> amount_locked,
     unlocked_amount |-> amount_unlocked,
     locked_amount_withdrawn |-> 0]

\* Mutant: the total is never compared with max_total_claim.
TotalWithinMax_unchecked(d) == TRUE

\* require!(total_amount_claimed <= max_total_claim, ExceededMaxClaim)
TotalWithinMax(d) == d.total_amount_claimed <= d.max_total_claim

\* Mutant: the locked amount is counted as claimed when the claim is created.
TotalAfterNewClaim_with_locked(d, amount_unlocked, amount_locked) ==
    checked_add(d.total_amount_claimed, amount_unlocked + amount_locked)

\* total_amount_claimed.checked_add(amount_unlocked)
TotalAfterNewClaim(d, amount_unlocked, amount_locked) ==
    checked_add(d.total_amount_claimed, amount_unlocked)

\* Mutant: the proof is verified first, before clawed_back and the node
\* counter are looked at.
handle_new_claim_proof_first(v, claimant, amount_unlocked, amount_locked, proof, address_tree) ==
    LET d0 == LoadDistributor(v)
        incremented == checked_add(d0.num_nodes_claimed, 1)
        d1 == [d0 EXCEPT !.num_nodes_claimed = incremented]
        address == << claimant, v >>
        new_status == InitClaimStatus(claimant, amount_unlocked, amount_locked)
        total == TotalAfterNewClaim(d1, amount_unlocked, amount_locked)
        d2 == [d1 EXCEPT !.total_amount_claimed = total]
    IN  IF ~ProofVerifies(proof, d0.root, claimant, amount_unlocked, amount_locked)
            THEN Returned("InvalidProof", d0, << >>, 0)
        ELSE IF ~NotClawedBack(d0)
            THEN Returned("ClaimExpired", d0, << >>, 0)
        ELSE IF incremented = None
            THEN Returned("ArithmeticError", d0, << >>, 0)
        ELSE IF ~NodesWithinMax(d1)
            THEN Returned("MaxNodesExceeded", d1, << >>, 0)
        ELSE IF address_tree # "ADDRESS_TREE_V2"
            THEN Returned("InvalidAddressTree", d1, << >>, 0)
        ELSE IF ~VaultCovers(v, amount_unlocked)
            THEN Returned("InsufficientUnlockedTokens", d1, << >>, 0)
        ELSE IF ~AddressIsNew(address)
            THEN Returned("LightSystemProgramError", d1, << >>, 0)
        ELSE IF total = None
            THEN Returned("ArithmeticError", d1, << new_status >>, amount_unlocked)
        ELSE IF ~TotalWithinMax(d2)
            THEN Returned("ExceededMaxClaim", d2, << new_status >>, amount_unlocked)
        ELSE Returned("Ok", d2, << new_status >>, amount_unlocked)

\* handle_new_claim on distributor v, signed by claimant.
handle_new_claim(v, claimant, amount_unlocked, amount_locked, proof, address_tree) ==
    LET d0 == LoadDistributor(v)
        incremented == checked_add(d0.num_nodes_claimed, 1)
        d1 == [d0 EXCEPT !.num_nodes_claimed = incremented]
        address == << claimant, v >>
        new_status == InitClaimStatus(claimant, amount_unlocked, amount_locked)
        total == TotalAfterNewClaim(d1, amount_unlocked, amount_locked)
        d2 == [d1 EXCEPT !.total_amount_claimed = total]
    IN  IF ~NotClawedBack(d0)
            THEN Returned("ClaimExpired", d0, << >>, 0)
        ELSE IF incremented = None
            THEN Returned("ArithmeticError", d0, << >>, 0)
        ELSE IF ~NodesWithinMax(d1)
            THEN Returned("MaxNodesExceeded", d1, << >>, 0)
        ELSE IF ~ProofVerifies(proof, d1.root, claimant, amount_unlocked, amount_locked)
            THEN Returned("InvalidProof", d1, << >>, 0)
        ELSE IF address_tree # "ADDRESS_TREE_V2"
            THEN Returned("InvalidAddressTree", d1, << >>, 0)
        ELSE IF ~VaultCovers(v, amount_unlocked)
            THEN Returned("InsufficientUnlockedTokens", d1, << >>, 0)
        ELSE IF ~AddressIsNew(address)
            THEN Returned("LightSystemProgramError", d1, << >>, 0)
        ELSE IF total = None
            THEN Returned("ArithmeticError", d1, << new_status >>, amount_unlocked)
        ELSE IF ~TotalWithinMax(d2)
            THEN Returned("ExceededMaxClaim", d2, << new_status >>, amount_unlocked)
        ELSE Returned("Ok", d2, << new_status >>, amount_unlocked)

\* The accounts after the handler's writes.
WriteNewClaim(v, claimant, r) ==
    /\ distributor' = [distributor EXCEPT ![v] = r.distributor]
    /\ claim_status' =
          IF r.status = << >> THEN claim_status
          ELSE [a \in DOMAIN claim_status \cup {<< claimant, v >>} |->
                   IF a = << claimant, v >> THEN r.status[1] ELSE claim_status[a]]
    /\ vault' = [vault EXCEPT ![v] = @ - r.transferred]
    /\ paid' = [paid EXCEPT ![v][claimant] = @ + r.transferred]
    /\ UNCHANGED swept

\* The NewClaim instruction as one transaction: its writes are kept when
\* the handler returns Ok and dropped otherwise.
NewClaimTx(v, claimant, amount_unlocked, amount_locked, proof, address_tree) ==
    /\ v \in DOMAIN distributor
    /\ LET r == handle_new_claim(v, claimant, amount_unlocked, amount_locked,
                                 proof, address_tree)
       IN /\ IF Committed(r)
                THEN WriteNewClaim(v, claimant, r)
                ELSE UNCHANGED ledger
          /\ last' = [op |-> "NewClaim", signer |-> claimant, err |-> r.err]
    /\ UNCHANGED << deposited, now >>

\* NewClaim processed as soon as it is sent.
NewClaim(v, claimant, amount_unlocked, amount_locked, proof, address_tree) ==
    /\ NewClaimTx(v, claimant, amount_unlocked, amount_locked, proof, address_tree)
    /\ UNCHANGED << inflight, call >>

\* ------------------------------------------------------------ claim_locked

\* Mutant: the claimant of the supplied ClaimStatus is not compared with the signer.
ClaimantMatches_unchecked(claim, claimant) == TRUE

\* require!(claim_status.claimant == claimant.key(), ClaimExpired)
ClaimantMatches(claim, claimant) == claim.claimant = claimant

\* Mutant: a withdrawal of nothing is let through.
AmountPositive_unchecked(amount) == TRUE

\* require!(amount > 0, InsufficientUnlockedTokens)
AmountPositive(amount) == amount > 0

\* require!(locked_amount_withdrawn <= locked_amount, ExceededMaxClaim)
WithdrawnWithinLocked(claim) == claim.locked_amount_withdrawn <= claim.locked_amount

\* The CPI consumes the input account (address, contents), which must be
\* in the state tree, and writes the changed contents at the same address.
InputAccountExists(address, claim) ==
    address \in DOMAIN claim_status /\ claim_status[address] = claim

\* handle_claim_locked on distributor v, signed by claimant, for the
\* compressed account the caller names by input_account_meta.address and
\* whose contents the caller supplies as claim.
handle_claim_locked(v, claimant, address, claim) ==
    LET d0 == LoadDistributor(v)
        amount == amount_withdrawable(claim, now, d0.start_ts, d0.end_ts)
        withdrawn == checked_add(claim.locked_amount_withdrawn, amount)
        c1 == [claim EXCEPT !.locked_amount_withdrawn = withdrawn]
        total == checked_add(d0.total_amount_claimed, amount)
        d1 == [d0 EXCEPT !.total_amount_claimed = total]
    IN  IF ~ClaimantMatches(claim, claimant)
            THEN Returned("ClaimExpired", d0, << claim >>, 0)
        ELSE IF ~NotClawedBack(d0)
            THEN Returned("ClaimExpired", d0, << claim >>, 0)
        ELSE IF ~AmountPositive(amount)
            THEN Returned("InsufficientUnlockedTokens", d0, << claim >>, 0)
        ELSE IF vault[v] < amount
            \* token::transfer fails on a vault that holds less than amount
            THEN Returned("TokenInsufficientFunds", d0, << claim >>, 0)
        ELSE IF withdrawn = None
            THEN Returned("ArithmeticError", d0, << claim >>, amount)
        ELSE IF ~WithdrawnWithinLocked(c1)
            THEN Returned("ExceededMaxClaim", d0, << c1 >>, amount)
        ELSE IF total = None
            THEN Returned("ArithmeticError", d0, << c1 >>, amount)
        ELSE IF ~TotalWithinMax(d1)
            THEN Returned("ExceededMaxClaim", d1, << c1 >>, amount)
        ELSE IF ~InputAccountExists(address, claim)
            THEN Returned("LightSystemProgramError", d1, << c1 >>, amount)
        ELSE Returned("Ok", d1, << c1 >>, amount)

\* Mutant: the distributor is not written back, so the update of its
\* total is lost.
WriteClaimLocked_without_total(v, claimant, address, r) ==
    /\ claim_status' =
          [a \in DOMAIN claim_status \cup {address} |->
              IF a = address THEN r.status[1] ELSE claim_status[a]]
    /\ vault' = [vault EXCEPT ![v] = @ - r.transferred]
    /\ paid' = [paid EXCEPT ![v][claimant] = @ + r.transferred]
    /\ UNCHANGED << distributor, swept >>

\* Mutant: the changed ClaimStatus is not written back.
WriteClaimLocked_stale(v, claimant, address, r) ==
    /\ distributor' = [distributor EXCEPT ![v] = r.distributor]
    /\ vault' = [vault EXCEPT ![v] = @ - r.transferred]
    /\ paid' = [paid EXCEPT ![v][claimant] = @ + r.transferred]
    /\ UNCHANGED << claim_status, swept >>

\* The accounts after the handler's writes.
WriteClaimLocked(v, claimant, address, r) ==
    /\ distributor' = [distributor EXCEPT ![v] = r.distributor]
    /\ claim_status' =
          [a \in DOMAIN claim_status \cup {address} |->
              IF a = address THEN r.status[1] ELSE claim_status[a]]
    /\ vault' = [vault EXCEPT ![v] = @ - r.transferred]
    /\ paid' = [paid EXCEPT ![v][claimant] = @ + r.transferred]
    /\ UNCHANGED swept

\* The ClaimLocked instruction as one transaction.
ClaimLockedTx(v, claimant, address, claim) ==
    /\ v \in DOMAIN distributor
    /\ LET r == handle_claim_locked(v, claimant, address, claim)
       IN /\ IF Committed(r)
                THEN WriteClaimLocked(v, claimant, address, r)
                ELSE UNCHANGED ledger
          /\ last' = [op |-> "ClaimLocked", signer |-> claimant, err |-> r.err]
    /\ UNCHANGED << deposited, now >>

\* ClaimLocked processed as soon as it is sent.
ClaimLocked(v, claimant, address, claim) ==
    /\ ClaimLockedTx(v, claimant, address, claim)
    /\ UNCHANGED << inflight, call >>

\* The ClaimStatus contents a caller may supply with ClaimLocked: those of
\* any compressed account that exists, or contents of the caller's making.
ClaimInputs(claimant) ==
    {claim_status[a] : a \in DOMAIN claim_status}
        \cup {[claimant |-> claimant, locked_amount |-> MaxAmount,
               unlocked_amount |-> 0, locked_amount_withdrawn |-> 0]}

\* ------------------------------------------------- the other instructions

\* The mint whose tokens the distributors hand out: the address of a
\* distributor is derived from (mint, version), and the model has one mint.
Mint == "mint"

\* The delay new_distributor demands between end_vesting_ts and
\* clawback_start_ts: one day, which is one tick of the model's clock.
SECONDS_PER_DAY == 1

\* Mutant: the admin is stored as the clawback receiver.
InitDistributor_receiver_admin(admin, mint, clawback_receiver, args) ==
    [root |-> args.root,
     mint |-> mint,
     admin |-> admin,
     clawback_receiver |-> admin,
     start_ts |-> args.start_vesting_ts,
     end_ts |-> args.end_vesting_ts,
     clawback_start_ts |-> args.clawback_start_ts,
     max_total_claim |-> args.max_total_claim,
     max_num_nodes |-> args.max_num_nodes,
     total_amount_claimed |-> 0,
     num_nodes_claimed |-> 0,
     clawed_back |-> FALSE]

\* The MerkleDistributor account new_distributor writes.
InitDistributor(admin, mint, clawback_receiver, args) ==
    [root |-> args.root,
     mint |-> mint,
     admin |-> admin,
     clawback_receiver |-> clawback_receiver,
     start_ts |-> args.start_vesting_ts,
     end_ts |-> args.end_vesting_ts,
     clawback_start_ts |-> args.clawback_start_ts,
     max_total_claim |-> args.max_total_claim,
     max_num_nodes |-> args.max_num_nodes,
     total_amount_claimed |-> 0,
     num_nodes_claimed |-> 0,
     clawed_back |-> FALSE]

\* Mutant: any clawback_start_ts is accepted.
ClawbackDelayKept_unchecked(args) == TRUE

\* clawback_start_ts >= end_vesting_ts + SECONDS_PER_DAY
ClawbackDelayKept(args) ==
    args.clawback_start_ts >= args.end_vesting_ts + SECONDS_PER_DAY

\* handle_new_distributor for the address of (mint, version v), signed by
\* admin: the account is initialized, which an address in use refuses.
handle_new_distributor(v, admin, mint, clawback_receiver, args) ==
    IF v \in DOMAIN distributor
        THEN Returned("AccountAlreadyInUse", distributor[v], << >>, 0)
    ELSE IF ~ClawbackDelayKept(args)
        THEN Returned("InsufficientClawbackDelay",
                      InitDistributor(admin, mint, clawback_receiver, args), << >>, 0)
    ELSE Returned("Ok", InitDistributor(admin, mint, clawback_receiver, args), << >>, 0)

\* The NewDistributor instruction as one transaction.
NewDistributorTx(v, admin, mint, clawback_receiver, args) ==
    /\ LET r == handle_new_distributor(v, admin, mint, clawback_receiver, args)
       IN /\ IF Committed(r)
                THEN /\ distributor' =
                           [x \in DOMAIN distributor \cup {v} |->
                               IF x = v THEN r.distributor ELSE distributor[x]]
                     /\ UNCHANGED << claim_status, vault, paid, swept >>
                ELSE UNCHANGED ledger
          /\ last' = [op |-> "NewDistributor", signer |-> admin, err |-> r.err]
    /\ UNCHANGED << deposited, now >>

\* new_distributor at an address that holds no account yet, with the
\* admin's own token account as clawback receiver.
NewDistributor(v, admin, args) ==
    /\ v \notin DOMAIN distributor
    /\ NewDistributorTx(v, admin, Mint, admin, args)
    /\ UNCHANGED << inflight, call >>

\* mint_to the token vault of distributor v.
Deposit(v, amount) ==
    /\ v \in DOMAIN distributor
    /\ deposited[0] + deposited[1] + amount <= MaxDeposit
    /\ vault' = [vault EXCEPT ![v] = @ + amount]
    /\ deposited' = [deposited EXCEPT ![v] = @ + amount]
    /\ last' = [op |-> "Deposit", signer |-> 0, err |-> "Ok"]
    /\ UNCHANGED << distributor, claim_status, paid, swept, now, inflight, call >>

\* Mutant: the signer is not compared with the admin.
handle_clawback_by_anyone(v, caller) ==
    LET d0 == distributor[v]
    IN  IF now < d0.clawback_start_ts
            THEN Returned("ClawbackBeforeStart", d0, << >>, 0)
        ELSE Returned("Ok", [d0 EXCEPT !.clawed_back = TRUE], << >>, vault[v])

\* clawback: the admin sweeps the vault once the clawback period has begun.
handle_clawback(v, caller) ==
    LET d0 == distributor[v]
    IN  IF caller # d0.admin THEN Returned("Unauthorized", d0, << >>, 0)
        ELSE IF now < d0.clawback_start_ts
            THEN Returned("ClawbackBeforeStart", d0, << >>, 0)
        ELSE Returned("Ok", [d0 EXCEPT !.clawed_back = TRUE], << >>, vault[v])

\* The accounts after the handler's writes.
WriteClawback(v, r) ==
    /\ distributor' = [distributor EXCEPT ![v] = r.distributor]
    /\ vault' = [vault EXCEPT ![v] = @ - r.transferred]
    /\ swept' = [swept EXCEPT ![v] = @ + r.transferred]
    /\ UNCHANGED << claim_status, paid >>

\* The Clawback instruction as one transaction.
ClawbackTx(v, caller) ==
    /\ v \in DOMAIN distributor
    /\ LET r == handle_clawback(v, caller)
       IN /\ IF Committed(r)
                THEN WriteClawback(v, r)
                ELSE UNCHANGED ledger
          /\ last' = [op |-> "Clawback", signer |-> caller, err |-> r.err]
    /\ UNCHANGED << deposited, now >>

Clawback(v, caller) ==
    /\ ClawbackTx(v, caller)
    /\ UNCHANGED << inflight, call >>

\* Mutant: the signer is not compared with the admin.
handle_set_admin_by_anyone(v, caller, new_admin) ==
    Returned("Ok", [distributor[v] EXCEPT !.admin = new_admin], << >>, 0)

\* set_admin: the admin hands the distributor to new_admin.
handle_set_admin(v, caller, new_admin) ==
    LET d0 == distributor[v]
    IN  IF caller # d0.admin THEN Returned("Unauthorized", d0, << >>, 0)
        ELSE Returned("Ok", [d0 EXCEPT !.admin = new_admin], << >>, 0)

\* The SetAdmin instruction as one transaction.
SetAdminTx(v, caller, new_admin) ==
    /\ v \in DOMAIN distributor
    /\ LET r == handle_set_admin(v, caller, new_admin)
       IN /\ IF Committed(r)
                THEN /\ distributor' = [distributor EXCEPT ![v] = r.distributor]
                     /\ UNCHANGED << claim_status, vault, paid, swept >>
                ELSE UNCHANGED ledger
          /\ last' = [op |-> "SetAdmin", signer |-> caller, err |-> r.err]
    /\ UNCHANGED << deposited, now >>

SetAdmin(v, caller, new_admin) ==
    /\ SetAdminTx(v, caller, new_admin)
    /\ UNCHANGED << inflight, call >>

\* The ledger clock advances.
Tick ==
    /\ now < MaxTime
    /\ now' = now + 1
    /\ last' = [op |-> "Tick", signer |-> 0, err |-> "Ok"]
    /\ UNCHANGED << ledger, deposited, inflight, call >>

\* ------------------------------------------------------------ the commands

\* A command of the cli runs as a process of its own: `call` holds the
\* command, its arguments, where it stands (pc), the instructions it has
\* submitted, the result of the last one and its exit status: None while it
\* runs, 0 when the function returns, 101 when it panics.

\* No command is running.
Idle == call.fn = "none" \/ (call.fn \in {"process_new_distributor", "process_claim",
                                          "process_clawback", "process_set_admin"}
                                /\ call.pc = "exit")

\* client.get_account_with_commitment(&distributor_pubkey, ..).value
GetDistributorAccount(v) ==
    IF v \in DOMAIN distributor THEN << distributor[v] >> ELSE << >>

\* Mutant: the admin of the stored distributor is not compared.
check_distributor_onchain_matches_without_admin(account, args, clawback_receiver, pubkey) ==
    IF account.root # args.root THEN "root mismatch"
    ELSE IF account.max_total_claim # args.max_total_claim THEN "max_total_claim mismatch"
    ELSE IF account.max_num_nodes # args.max_num_nodes THEN "max_num_nodes mismatch"
    ELSE IF account.start_ts # args.start_vesting_ts THEN "start_ts mismatch"
    ELSE IF account.end_ts # args.end_vesting_ts THEN "end_ts mismatch"
    ELSE IF account.clawback_start_ts # args.clawback_start_ts
        THEN "clawback_start_ts mismatch"
    ELSE IF account.clawback_receiver # clawback_receiver THEN "clawback_receiver mismatch"
    ELSE "Ok"

\* check_distributor_onchain_matches for an account that holds a
\* MerkleDistributor: the first field that differs is reported.
check_distributor_onchain_matches(account, args, clawback_receiver, pubkey) ==
    IF account.root # args.root THEN "root mismatch"
    ELSE IF account.max_total_claim # args.max_total_claim THEN "max_total_claim mismatch"
    ELSE IF account.max_num_nodes # args.max_num_nodes THEN "max_num_nodes mismatch"
    ELSE IF account.start_ts # args.start_vesting_ts THEN "start_ts mismatch"
    ELSE IF account.end_ts # args.end_vesting_ts THEN "end_ts mismatch"
    ELSE IF account.clawback_start_ts # args.clawback_start_ts
        THEN "clawback_start_ts mismatch"
    ELSE IF account.clawback_receiver # clawback_receiver THEN "clawback_receiver mismatch"
    ELSE IF account.admin # pubkey THEN "admin mismatch"
    ELSE "Ok"

\* What the command finds at the distributor address: "Ok" when there is no
\* account or the account matches the arguments.
CheckDistributorAddress ==
    LET found == GetDistributorAccount(0)
    IN IF found = << >> THEN "Ok"
       ELSE check_distributor_onchain_matches(found[1], call.args,
                                              call.clawback_receiver, call.keypair)

\* new-distributor is started with a keypair, a clawback receiver and the
\* instruction data of a tree file.
RunNewDistributor(keypair, clawback_receiver, args) ==
    /\ Idle
    /\ call' = [fn |-> "process_new_distributor", pc |-> "lookup",
                keypair |-> keypair, clawback_receiver |-> clawback_receiver,
                args |-> args, submitted |-> << >>, tx |-> "none", exit |-> None]
    /\ UNCHANGED << ledger, deposited, now, inflight, last >>

\* The account at the distributor address is looked up and, if there is
\* one, compared with the arguments: expect() panics on a mismatch.
NewDistributorLookup ==
    /\ call.fn = "process_new_distributor" /\ call.pc = "lookup"
    /\ call' = IF CheckDistributorAddress = "Ok"
               THEN [call EXCEPT !.pc = "submit"]
               ELSE [call EXCEPT !.pc = "exit", !.exit = 101]
    /\ UNCHANGED << ledger, deposited, now, inflight, last >>

\* The NewDistributor transaction is sent and confirmed. Ok returns from
\* the function; Err prints the failure and goes on to look again.
NewDistributorSubmit ==
    /\ call.fn = "process_new_distributor" /\ call.pc = "submit"
    /\ NewDistributorTx(0, call.keypair, Mint, call.clawback_receiver, call.args)
    /\ call' = IF last'.err = "Ok"
               THEN [call EXCEPT !.pc = "exit", !.exit = 0, !.tx = last'.err,
                                 !.submitted = Append(@, "NewDistributor")]
               ELSE [call EXCEPT !.pc = "recheck", !.tx = last'.err,
                                 !.submitted = Append(@, "NewDistributor")]
    /\ UNCHANGED inflight

\* After a failed transaction the account is looked up again: expect()
\* panics on a mismatch, and otherwise the function returns.
NewDistributorRecheck ==
    /\ call.fn = "process_new_distributor" /\ call.pc = "recheck"
    /\ call' = IF CheckDistributorAddress = "Ok"
               THEN [call EXCEPT !.pc = "exit", !.exit = 0]
               ELSE [call EXCEPT !.pc = "exit", !.exit = 101]
    /\ UNCHANGED << ledger, deposited, now, inflight, last >>

\* set-admin: the SetAdmin transaction is sent and confirmed; unwrap()
\* panics when it failed.
process_set_admin(keypair, new_admin) ==
    /\ Idle
    /\ SetAdminTx(0, keypair, new_admin)
    /\ call' = [fn |-> "process_set_admin", pc |-> "exit", keypair |-> keypair,
                submitted |-> << "SetAdmin" >>, tx |-> last'.err,
                exit |-> IF last'.err = "Ok" THEN 0 ELSE 101]
    /\ UNCHANGED inflight

\* clawback: the Clawback transaction, signed by the clawback keypair, is
\* sent and confirmed; unwrap() panics when it failed.
process_clawback(clawback_keypair) ==
    /\ Idle
    /\ ClawbackTx(0, clawback_keypair)
    /\ call' = [fn |-> "process_clawback", pc |-> "exit", keypair |-> clawback_keypair,
                submitted |-> << "Clawback" >>, tx |-> last'.err,
                exit |-> IF last'.err = "Ok" THEN 0 ELSE 101]
    /\ UNCHANGED inflight

\* client.get_compressed_account(Some(address), None): the answers the
\* indexer may give. An account that exists is found, or not found yet
\* while the indexer catches up; any lookup may fail otherwise.
GetCompressedAccountResults(address) ==
    IF address \in DOMAIN claim_status
    THEN {"found", "not found", "error"}
    ELSE {"not found", "error"}

\* Mutant: a lookup that finds nothing goes straight on to ClaimLocked.
AfterLookup_without_new_claim(result) ==
    IF result \in {"found", "not found"} THEN "claim_locked" ELSE "panic"

\* The match on the first lookup of the claim command.
AfterLookup(result) ==
    IF result = "found" THEN "claim_locked"
    ELSE IF result = "not found" THEN "new_claim"
    ELSE "panic"

\* The node of claimant in a tree file, as NewClaim instruction data.
NodeClaimOf(tree_nodes, claimant) ==
    LET i == CHOOSE j \in 1..Len(tree_nodes) : tree_nodes[j].claimant = claimant
    IN [claimant |-> claimant,
        amount_unlocked |-> TreeNode_amount_unlocked(tree_nodes[i]),
        amount_locked |-> TreeNode_amount_locked(tree_nodes[i]),
        proof |-> AirdropMerkleTree(tree_nodes).proof[i],
        address_tree |-> "ADDRESS_TREE_V2"]

\* claim is started by a recipient of the tree file it is given.
RunClaim(keypair, tree_nodes) ==
    /\ Idle
    /\ 0 \in DOMAIN distributor
    /\ \E j \in 1..Len(tree_nodes) : tree_nodes[j].claimant = keypair
    /\ call' = [fn |-> "process_claim", pc |-> "lookup", keypair |-> keypair,
                tree_nodes |-> tree_nodes, lookup |-> "none", requeried |-> FALSE,
                snapshot |-> << >>, submitted |-> << >>, tx |-> "none",
                exit |-> None]
    /\ UNCHANGED << ledger, deposited, now, inflight, last >>

\* The first lookup of the claimant's ClaimStatus.
ClaimLookup ==
    /\ call.fn = "process_claim" /\ call.pc = "lookup"
    /\ \E result \in GetCompressedAccountResults(<< call.keypair, 0 >>) :
          call' = IF AfterLookup(result) = "panic"
                  THEN [call EXCEPT !.lookup = result, !.pc = "exit", !.exit = 101]
                  ELSE [call EXCEPT !.lookup = result, !.pc = AfterLookup(result)]
    /\ UNCHANGED << ledger, deposited, now, inflight, last >>

\* process_new_claim: the NewClaim of the claimant's node is sent and
\* confirmed; unwrap() panics when it failed.
ClaimNewClaim ==
    /\ call.fn = "process_claim" /\ call.pc = "new_claim"
    /\ LET c == NodeClaimOf(call.tree_nodes, call.keypair)
       IN NewClaimTx(0, c.claimant, c.amount_unlocked, c.amount_locked, c.proof,
                     c.address_tree)
    /\ call' = IF last'.err = "Ok"
               THEN [call EXCEPT !.pc = "requery", !.tx = last'.err,
                                 !.submitted = Append(@, "NewClaim")]
               ELSE [call EXCEPT !.pc = "exit", !.exit = 101, !.tx = last'.err,
                                 !.submitted = Append(@, "NewClaim")]
    /\ UNCHANGED inflight

\* The lookup after process_new_claim: expect() panics unless it finds
\* the account.
ClaimRequery ==
    /\ call.fn = "process_claim" /\ call.pc = "requery"
    /\ \E result \in GetCompressedAccountResults(<< call.keypair, 0 >>) :
          call' = IF result = "found"
                  THEN [call EXCEPT !.requeried = TRUE, !.pc = "claim_locked"]
                  ELSE [call EXCEPT !.requeried = TRUE, !.pc = "exit", !.exit = 101]
    /\ UNCHANGED << ledger, deposited, now, inflight, last >>

\* The ClaimLocked is built from by_owner[0], the first compressed account
\* of the program the indexer lists (any of them; indexing an empty list
\* panics), under the claimant's own address, and is sent and confirmed;
\* unwrap() panics when it failed.  snapshot holds the address of the
\* account whose contents, hash and validity proof were submitted.
ClaimSubmitLocked ==
    /\ call.fn = "process_claim" /\ call.pc = "claim_locked"
    /\ IF DOMAIN claim_status = {}
       THEN /\ call' = [call EXCEPT !.pc = "exit", !.exit = 101]
            /\ UNCHANGED << ledger, deposited, now, last >>
       ELSE \E a \in DOMAIN claim_status :
               /\ ClaimLockedTx(0, call.keypair, << call.keypair, 0 >>, claim_status[a])
               /\ call' = [call EXCEPT !.pc = "exit", !.tx = last'.err,
                                       !.snapshot = << a >>,
                                       !.submitted = Append(@, "ClaimLocked"),
                                       !.exit = IF last'.err = "Ok" THEN 0 ELSE 101]
    /\ UNCHANGED inflight

\* ---------------------------------------------------------- specification

\* No library call is in progress while the program runs.
NoCall == [fn |-> "none"]

\* Before any distributor exists.
InitLedger ==
    /\ distributor = << >>
    /\ claim_status = << >>
    /\ vault = [v \in Versions |-> 0]
    /\ paid = [v \in Versions |-> [k \in Keys |-> 0]]
    /\ swept = [v \in Versions |-> 0]
    /\ deposited = [v \in Versions |-> 0]
    /\ now = 0
    /\ inflight = << >>
    /\ last = [op |-> "Init", signer |-> 0, err |-> "Ok"]

Init == InitLedger /\ call = NoCall

\* One airdrop: every instruction, with every input, on version 0.
Next ==
    \/ \E admin \in AdminKeys, args \in NewDistributorInputs :
          NewDistributor(0, admin, args)
    \/ \E amount \in 1..MaxDeposit : Deposit(0, amount)
    \/ \E c \in NewClaimInputs :
          NewClaim(0, c.claimant, c.amount_unlocked, c.amount_locked, c.proof,
                   c.address_tree)
    \/ \E claimant \in Keys, address \in Addresses :
          \E claim \in ClaimInputs(claimant) :
             ClaimLocked(0, claimant, address, claim)
    \/ \E caller \in Keys : Clawback(0, caller)
    \/ \E caller \in Keys, new_admin \in AdminKeys : SetAdmin(0, caller, new_admin)
    \/ Tick

Spec == Init /\ [][Next]_vars

\* Two airdrops of the same program, version 0 over TreeA and version 1 over
\* TreeB, each created and funded by key 3 and claimed from with the inputs
\* the claim command builds; ClaimLocked may name any existing ClaimStatus.
TreeOf(v) == IF v = 0 THEN TreeA ELSE TreeB

NextCross ==
    \/ \E v \in Versions :
          NewDistributor(v, 3, DistributorArgs(TreeOf(v), 1, 3, 4, 0, 0))
    \/ \E v \in Versions : Deposit(v, 2)
    \/ \E v \in Versions, c \in NodeClaims :
          NewClaim(v, c.claimant, c.amount_unlocked, c.amount_locked, c.proof,
                   c.address_tree)
    \/ \E v \in Versions, address \in DOMAIN claim_status :
          ClaimLocked(v, address[1], address, claim_status[address])
    \/ Tick

SpecCross == Init /\ [][NextCross]_vars

\* NewClaim transactions in flight: a claimant signs and sends a NewClaim
\* while no ClaimStatus exists at its address, and the ledger processes the
\* transactions sent, one at a time, in any order.
SendNewClaim(c) ==
    /\ 0 \in DOMAIN distributor
    /\ Len(inflight) < MaxInflight
    /\ << c.claimant, 0 >> \notin DOMAIN claim_status
    /\ inflight' = Append(inflight, c)
    /\ last' = [op |-> "SendNewClaim", signer |-> c.claimant, err |-> "Ok"]
    /\ UNCHANGED << ledger, deposited, now, call >>

ProcessNewClaim(i) ==
    /\ i \in 1..Len(inflight)
    /\ LET c == inflight[i]
       IN NewClaimTx(0, c.claimant, c.amount_unlocked, c.amount_locked, c.proof,
                     c.address_tree)
    /\ inflight' = SubSeq(inflight, 1, i - 1) \o SubSeq(inflight, i + 1, Len(inflight))
    /\ UNCHANGED call

NextInflight ==
    \/ \E admin \in AdminKeys, args \in NewDistributorInputs :
          NewDistributor(0, admin, args)
    \/ \E amount \in 1..MaxDeposit : Deposit(0, amount)
    \/ \E c \in NodeClaims : SendNewClaim(c)
    \/ \E i \in 1..MaxInflight : ProcessNewClaim(i)

SpecInflight == Init /\ [][NextInflight]_vars

\* The vesting calculator on its own: a ClaimStatus and a vesting window are
\* drawn, the calculator is called, and called again as time passes.
VestingClaims ==
    {[claimant |-> 1, locked_amount |-> l, unlocked_amount |-> 0,
      locked_amount_withdrawn |-> w] : l \in 0..MaxLocked, w \in 0..MaxLocked}

InitVesting ==
    /\ InitLedger
    /\ call \in {[fn |-> "amount_withdrawable", claim |-> c, curr_ts |-> 0,
                  start_ts |-> s, end_ts |-> e, result |-> None] :
                    c \in {x \in VestingClaims : x.locked_amount_withdrawn <= x.locked_amount},
                    s \in 0..MaxTime, e \in 0..MaxTime}

CallAmountWithdrawable ==
    /\ call.fn = "amount_withdrawable"
    /\ call.result = None
    /\ call' = [call EXCEPT !.result =
                   amount_withdrawable(call.claim, call.curr_ts, call.start_ts,
                                       call.end_ts)]
    /\ UNCHANGED << ledger, deposited, now, inflight, last >>

CallAmountWithdrawableLater ==
    /\ call.fn = "amount_withdrawable"
    /\ call.result # None
    /\ call.curr_ts < MaxTime
    /\ call' = [call EXCEPT !.curr_ts = @ + 1,
                            !.result =
                   amount_withdrawable(call.claim, call.curr_ts + 1, call.start_ts,
                                       call.end_ts)]
    /\ UNCHANGED << ledger, deposited, now, inflight, last >>

NextVesting == CallAmountWithdrawable \/ CallAmountWithdrawableLater

SpecVesting == InitVesting /\ [][NextVesting]_vars

\* The tree builder on its own: a recipient list is drawn, the tree is
\* built, each stored proof is put through the proof check of NewClaim, and
\* the new-distributor command creates the distributor of the tree.

\* Orders of distinct claimants.
ClaimantOrders ==
    {s \in UNION {[1..n -> Keys] : n \in 1..Cardinality(Keys)} :
        \A i, j \in 1..Len(s) : i # j => s[i] # s[j]}

\* A recipient with unlocked amount u and locked amount l, each split over
\* the staker and the validator category.
Recipient(claimant, u, l) ==
    TreeNode(claimant, u \div 2, l \div 2, u - (u \div 2), l - (l \div 2))

\* A recipient list: distinct claimants in some order, each with an unlocked
\* and a locked amount.
InitTree ==
    /\ InitLedger
    /\ \E s \in ClaimantOrders :
          \E a \in [1..Len(s) -> (0..MaxAmount) \X (0..MaxAmount)] :
             call = [fn |-> "AirdropMerkleTree::new",
                     tree_nodes |-> [i \in 1..Len(s) |-> Recipient(s[i], a[i][1], a[i][2])],
                     built |-> FALSE]

BuildTree ==
    /\ call.fn = "AirdropMerkleTree::new"
    /\ ~call.built
    /\ call' = [fn |-> call.fn, tree_nodes |-> call.tree_nodes, built |-> TRUE,
                tree |-> AirdropMerkleTree(call.tree_nodes),
                checked |-> 0, ok |-> FALSE]
    /\ UNCHANGED << ledger, deposited, now, inflight, last >>

\* The proof stored for node i goes through the proof check of NewClaim,
\* with the node's claimant and amounts as the instruction would carry them.
VerifyStoredProof(i) ==
    /\ call.fn = "AirdropMerkleTree::new"
    /\ call.built
    /\ i \in 1..Len(call.tree.tree_nodes)
    /\ LET node == call.tree.tree_nodes[i]
       IN call' = [call EXCEPT
             !.checked = i,
             !.ok = ProofVerifies(call.tree.proof[i], call.tree.merkle_root,
                                  node.claimant, TreeNode_amount_unlocked(node),
                                  TreeNode_amount_locked(node))]
    /\ UNCHANGED << ledger, deposited, now, inflight, last >>

\* process_new_distributor: the distributor is created from the tree.
CreateDistributorFromTree ==
    /\ call.fn = "AirdropMerkleTree::new"
    /\ call.built
    /\ NewDistributor(0, 3, DistributorArgs(call.tree_nodes, 1, 3, 4, 0, 0))

NextTree ==
    \/ BuildTree
    \/ \E i \in 1..Cardinality(Keys) : VerifyStoredProof(i)
    \/ CreateDistributorFromTree

SpecTree == InitTree /\ [][NextTree]_vars

\* NewClaim at the ends of the node counter: the distributor of TreeA as
\* new_distributor leaves it, but with num_nodes_claimed and max_num_nodes
\* drawn from the values around the node bound and around the largest u64
\* (the counter of a distributor that has taken that many claims; the
\* ClaimStatus accounts of those claimants belong to keys outside Keys).
NodeCounters ==
    {<< n, m >> \in {0, 1, 2, U64_MAX - 1, U64_MAX} \X {2, U64_MAX} : n <= m}

InitCounters ==
    /\ \E nm \in NodeCounters :
          distributor =
             (0 :> [root |-> AirdropMerkleTree(TreeA).merkle_root,
                    mint |-> Mint,
                    admin |-> 3,
                    clawback_receiver |-> 3,
                    start_ts |-> 1,
                    end_ts |-> 3,
                    clawback_start_ts |-> 4,
                    max_total_claim |-> AirdropMerkleTree(TreeA).max_total_claim,
                    max_num_nodes |-> nm[2],
                    total_amount_claimed |-> 0,
                    num_nodes_claimed |-> nm[1],
                    clawed_back |-> FALSE])
    /\ claim_status = << >>
    /\ vault = [v \in Versions |-> 0]
    /\ paid = [v \in Versions |-> [k \in Keys |-> 0]]
    /\ swept = [v \in Versions |-> 0]
    /\ deposited = [v \in Versions |-> 0]
    /\ now = 0
    /\ inflight = << >>
    /\ last = [op |-> "NewDistributor", signer |-> 3, err |-> "Ok"]
    /\ call = NoCall

NextCounters ==
    \/ \E amount \in 1..MaxDeposit : Deposit(0, amount)
    \/ \E c \in NewClaimInputs :
          NewClaim(0, c.claimant, c.amount_unlocked, c.amount_locked, c.proof,
                   c.address_tree)

SpecCounters == InitCounters /\ [][NextCounters]_vars

\* The new-distributor command next to other senders: the command runs, and
\* runs again, while any admin key may create the distributor first or
\* hand it to another admin.

\* The instruction data the command is given: those of NewDistributorInputs
\* and one whose clawback starts when the vesting ends.
CommandDistributorInputs ==
    NewDistributorInputs \cup {DistributorArgs(TreeA, 1, 3, 3, 0, 0)}

NextNewDistributor ==
    \/ \E keypair \in AdminKeys, clawback_receiver \in AdminKeys :
          \E args \in CommandDistributorInputs :
             RunNewDistributor(keypair, clawback_receiver, args)
    \/ NewDistributorLookup
    \/ NewDistributorSubmit
    \/ NewDistributorRecheck
    \/ \E admin \in AdminKeys, args \in NewDistributorInputs :
          NewDistributor(0, admin, args)
    \/ \E keypair \in AdminKeys, new_admin \in AdminKeys :
          process_set_admin(keypair, new_admin)

SpecNewDistributor == Init /\ [][NextNewDistributor]_vars

\* The claim command next to other senders: the distributor of TreeA is
\* created and funded, recipients run claim with one tree file or the other
\* while other NewClaims arrive, time passes and the clawback command runs.
NextClaim ==
    \/ NewDistributor(0, 3, DistributorArgs(TreeA, 1, 3, 4, 0, 0))
    \/ \E amount \in 1..MaxDeposit : Deposit(0, amount)
    \/ Tick
    \/ \E keypair \in Keys, tree_nodes \in Trees : RunClaim(keypair, tree_nodes)
    \/ ClaimLookup
    \/ ClaimNewClaim
    \/ ClaimRequery
    \/ ClaimSubmitLocked
    \/ \E c \in NodeClaims :
          NewClaim(0, c.claimant, c.amount_unlocked, c.amount_locked, c.proof,
                   c.address_tree)
    \/ \E clawback_keypair \in AdminKeys : process_clawback(clawback_keypair)

SpecClaim == Init /\ [][NextClaim]_vars

\* The clawback timing: the distributor of TreeA is created with any
\* vesting window (start_ts <= end_ts) and any clawback_start_ts the clock
\* can show, is funded and claimed from, time passes, and Clawback is tried
\* by every key at every time.
NextTiming ==
    \/ \E start_ts \in 0..MaxTime, end_ts \in 0..MaxTime, clawback_ts \in 0..MaxTime :
          /\ start_ts <= end_ts
          /\ NewDistributorTx(0, 3, Mint, 3,
                              DistributorArgs(TreeA, start_ts, end_ts, clawback_ts, 0, 0))
          /\ UNCHANGED << inflight, call >>
    \/ Deposit(0, MaxDeposit)
    \/ \E c \in NodeClaims :
          NewClaim(0, c.claimant, c.amount_unlocked, c.amount_locked, c.proof,
                   c.address_tree)
    \/ \E address \in DOMAIN claim_status :
          ClaimLocked(0, address[1], address, claim_status[address])
    \/ \E caller \in Keys : Clawback(0, caller)
    \/ Tick

SpecTiming == Init /\ [][NextTiming]_vars

\* NewClaim and ClaimLocked transactions in flight together: claimants sign
\* and send them, a ClaimLocked carrying the ClaimStatus as its sender read
\* it, and the ledger processes the transactions sent one at a time, in any
\* order, each against the accounts as they are then.
SendClaimLocked(address) ==
    /\ 0 \in DOMAIN distributor
    /\ Len(inflight) < MaxInflight
    /\ address \in DOMAIN claim_status
    /\ inflight' = Append(inflight, [claimant |-> address[1], address |-> address,
                                     claim |-> claim_status[address]])
    /\ last' = [op |-> "SendClaimLocked", signer |-> address[1], err |-> "Ok"]
    /\ UNCHANGED << ledger, deposited, now, call >>

ProcessClaimLocked(i) ==
    /\ i \in 1..Len(inflight)
    /\ "claim" \in DOMAIN inflight[i]
    /\ ClaimLockedTx(0, inflight[i].claimant, inflight[i].address, inflight[i].claim)
    /\ inflight' = SubSeq(inflight, 1, i - 1) \o SubSeq(inflight, i + 1, Len(inflight))
    /\ UNCHANGED call

NextConcurrent ==
    \/ \E args \in NewDistributorInputs : NewDistributor(0, 3, args)
    \/ Deposit(0, MaxDeposit)
    \/ Tick
    \/ \E c \in NodeClaims : SendNewClaim(c)
    \/ \E address \in Addresses : SendClaimLocked(address)
    \/ \E i \in 1..MaxInflight :
          /\ i \in 1..Len(inflight)
          /\ "proof" \in DOMAIN inflight[i]
          /\ ProcessNewClaim(i)
    \/ \E i \in 1..MaxInflight : ProcessClaimLocked(i)

SpecConcurrent == Init /\ [][NextConcurrent]_vars

\* A NewClaim sent again: a recipient sends the NewClaim of its leaf, and
\* sends the same transaction again when it was turned away for the vault
\* balance, while the vault is funded, other claimants claim, time passes
\* and the admin may claw back.  call holds the request, whether a
\* ClaimStatus of the claimant existed when it was first sent, and the
\* result of the last try.
SubmitNewClaim(c) ==
    /\ call.fn = "none"
    /\ NewClaimTx(0, c.claimant, c.amount_unlocked, c.amount_locked, c.proof,
                  c.address_tree)
    /\ call' = [fn |-> "process_new_claim", request |-> c,
                fresh |-> << c.claimant, 0 >> \notin DOMAIN claim_status,
                err |-> last'.err, retried |-> FALSE]
    /\ UNCHANGED inflight

RetryNewClaim ==
    /\ call.fn = "process_new_claim"
    /\ call.err = "InsufficientUnlockedTokens"
    /\ NewClaimTx(0, call.request.claimant, call.request.amount_unlocked,
                  call.request.amount_locked, call.request.proof,
                  call.request.address_tree)
    /\ call' = [call EXCEPT !.err = last'.err, !.retried = TRUE]
    /\ UNCHANGED inflight

NextRetry ==
    \/ \E args \in NewDistributorInputs : NewDistributor(0, 3, args)
    \/ \E amount \in 1..MaxDeposit : Deposit(0, amount)
    \/ Tick
    \/ \E c \in NodeClaims : SubmitNewClaim(c)
    \/ RetryNewClaim
    \/ \E c \in NodeClaims :
          /\ IF call.fn = "none" THEN TRUE ELSE c.claimant # call.request.claimant
          /\ NewClaim(0, c.claimant, c.amount_unlocked, c.amount_locked, c.proof,
                      c.address_tree)
    \/ \E address \in DOMAIN claim_status :
          ClaimLocked(0, address[1], address, claim_status[address])
    \/ \E caller \in AdminKeys : Clawback(0, caller)

SpecRetry == Init /\ [][NextRetry]_vars

\* Claims with shortened proofs: a recipient list is drawn (distinct
\* claimants in some order, each with any unlocked amount and a locked
\* amount of nothing or MaxAmount) and its tree built, the distributor of the tree is created, and each recipient sends
\* NewClaim for its leaf with the stored proof or with the first n hashes
\* of it only.
InitShortProof ==
    /\ InitLedger
    /\ \E s \in ClaimantOrders :
          \E a \in [1..Len(s) -> (0..MaxAmount) \X {0, MaxAmount}] :
             call = [fn |-> "AirdropMerkleTree::new",
                     tree_nodes |-> [i \in 1..Len(s) |-> Recipient(s[i], a[i][1], a[i][2])],
                     built |-> FALSE]

ClaimWithStoredProof(i) ==
    /\ call.fn = "AirdropMerkleTree::new"
    /\ call.built
    /\ i \in 1..Len(call.tree.tree_nodes)
    /\ LET node == call.tree.tree_nodes[i]
       IN NewClaimTx(0, node.claimant, TreeNode_amount_unlocked(node),
                     TreeNode_amount_locked(node), call.tree.proof[i],
                     "ADDRESS_TREE_V2")
    /\ UNCHANGED << inflight, call >>

ClaimWithShortProof(i, n) ==
    /\ call.fn = "AirdropMerkleTree::new"
    /\ call.built
    /\ i \in 1..Len(call.tree.tree_nodes)
    /\ n < Len(call.tree.proof[i])
    /\ LET node == call.tree.tree_nodes[i]
       IN NewClaimTx(0, node.claimant, TreeNode_amount_unlocked(node),
                     TreeNode_amount_locked(node), SubSeq(call.tree.proof[i], 1, n),
                     "ADDRESS_TREE_V2")
    /\ UNCHANGED << inflight, call >>

NextShortProof ==
    \/ BuildTree
    \/ CreateDistributorFromTree
    \/ \E i \in 1..Cardinality(Keys) : ClaimWithStoredProof(i)
    \/ \E i \in 1..Cardinality(Keys), n \in 0..Cardinality(Keys) :
          ClaimWithShortProof(i, n)

SpecShortProof == InitShortProof /\ [][NextShortProof]_vars

\* ClaimLocked over every ClaimStatus: one ClaimStatus of claimant 1 with
\* any locked_amount and any locked_amount_withdrawn up to it, small or at
\* the largest u64, in a distributor with any vesting window whose vault
\* holds what is left to withdraw; the claimant calls ClaimLocked as time
\* passes.  The windows of the largest amounts are at most one second long.
WideAmounts == {U64_MAX - 1, U64_MAX}

InitWithdrawn ==
    /\ \E l \in (0..MaxLocked) \cup WideAmounts :
          \E w \in (0..MaxLocked) \cup {U64_MAX - 1, U64_MAX} :
             \E s \in 0..MaxTime, e \in 0..MaxTime :
                /\ w <= l
                /\ l \in WideAmounts => e <= s + 1
                /\ distributor =
                      (0 :> [root |-> AirdropMerkleTree(TreeA).merkle_root,
                             mint |-> Mint,
                             admin |-> 3,
                             clawback_receiver |-> 3,
                             start_ts |-> s,
                             end_ts |-> e,
                             clawback_start_ts |-> MaxTime + SECONDS_PER_DAY,
                             max_total_claim |-> l,
                             max_num_nodes |-> 1,
                             total_amount_claimed |-> w,
                             num_nodes_claimed |-> 1,
                             clawed_back |-> FALSE])
                /\ claim_status =
                      (<< 1, 0 >> :> [claimant |-> 1, locked_amount |-> l,
                                     unlocked_amount |-> 0,
                                     locked_amount_withdrawn |-> w])
                /\ vault = [v \in Versions |-> IF v = 0 THEN l - w ELSE 0]
                /\ paid = [v \in Versions |->
                             [k \in Keys |-> IF v = 0 /\ k = 1 THEN w ELSE 0]]
                /\ deposited = [v \in Versions |-> IF v = 0 THEN l ELSE 0]
    /\ swept = [v \in Versions |-> 0]
    /\ now = 0
    /\ inflight = << >>
    /\ last = [op |-> "NewClaim", signer |-> 1, err |-> "Ok"]
    /\ call = NoCall

NextWithdrawn ==
    \/ ClaimLocked(0, 1, << 1, 0 >>, claim_status[<< 1, 0 >>])
    \/ Tick

SpecWithdrawn == InitWithdrawn /\ [][NextWithdrawn]_vars

TypeOK ==
    /\ DOMAIN distributor \subseteq Versions
    /\ DOMAIN claim_status \subseteq Addresses
    /\ now \in 0..MaxTime

\* ------------------------------------------------------------------ claims

\* The recipient list a distributor's root commits to.
CommittedTree(d) == CHOOSE t \in Trees : AirdropMerkleTree(t).merkle_root = d.root

\* amount_unlocked + amount_locked of the leaf of key k in tree_nodes, 0
\* when the list has no leaf for k.
RECURSIVE LeafTotal(_, _)
LeafTotal(tree_nodes, k) ==
    IF tree_nodes = << >> THEN 0
    ELSE (IF Head(tree_nodes).claimant = k
          THEN TreeNode_amount_unlocked(Head(tree_nodes))
                  + TreeNode_amount_locked(Head(tree_nodes))
          ELSE 0) + LeafTotal(Tail(tree_nodes), k)

\* C1: in every reachable state each distributor has
\* total_amount_claimed <= max_total_claim and num_nodes_claimed <= max_num_nodes.
C1_CountersWithinMaxima ==
    \A v \in DOMAIN distributor :
        /\ distributor[v].total_amount_claimed <= distributor[v].max_total_claim
        /\ distributor[v].num_nodes_claimed <= distributor[v].max_num_nodes

\* A NewClaim was turned away at the node bound of a distributor whose
\* node count had reached max_num_nodes.
C1_Witness ==
    /\ last.op = "NewClaim" /\ last.err = "MaxNodesExceeded"
    /\ 0 \in DOMAIN distributor
    /\ distributor[0].num_nodes_claimed = distributor[0].max_num_nodes
    /\ distributor[0].num_nodes_claimed > 0

\* C2: the tokens moved from a distributor's vault to a key never exceed
\* amount_unlocked + amount_locked of that key's leaf in the distributor's tree.
C2_NoClaimantOverpaid ==
    \A v \in DOMAIN distributor : \A k \in Keys :
        paid[v][k] <= LeafTotal(CommittedTree(distributor[v]), k)

\* C3: a NewClaim for a (distributor, claimant) pair whose ClaimStatus exists
\* fails, whatever its proof, and changes no account and no balance.
C3_SecondNewClaimFails ==
    [][(last'.op = "NewClaim" /\ << last'.signer, 0 >> \in DOMAIN claim_status)
          => (last'.err # "Ok" /\ UNCHANGED ledger)]_vars

\* A second NewClaim passed every guard of the handler, the proof check
\* included, and was turned away at the creation of the account.
C3_Witness ==
    /\ last.op = "NewClaim" /\ last.err = "LightSystemProgramError"
    /\ << last.signer, 0 >> \in DOMAIN claim_status

\* C4: of the NewClaim transactions of one claimant that are in flight
\* together at most one succeeds: once the claimant's ClaimStatus exists a
\* NewClaim of theirs is rejected, the ClaimStatus is never written again
\* and nothing more is paid to the claimant.
C4_OneInflightNewClaimSucceeds ==
    [][/\ (last'.op = "NewClaim" /\ << last'.signer, 0 >> \in DOMAIN claim_status)
            => last'.err # "Ok"
       /\ \A a \in DOMAIN claim_status :
             /\ a \in DOMAIN claim_status'
             /\ claim_status'[a] = claim_status[a]
             /\ paid'[a[2]][a[1]] = paid[a[2]][a[1]]]_vars

\* Two NewClaims of one claimant were in flight together; the first one
\* processed created the ClaimStatus and the other has now been rejected.
C4_Witness ==
    /\ last.op = "NewClaim" /\ last.err = "LightSystemProgramError"
    /\ << last.signer, 0 >> \in DOMAIN claim_status
    /\ paid[0][last.signer] = claim_status[<< last.signer, 0 >>].unlocked_amount
    /\ paid[0][last.signer] > 0
    /\ inflight = << >>

\* C5: on a clawed-back distributor every NewClaim and every ClaimLocked
\* fails with ClaimExpired and changes no account and no balance.
C5_ClawedBackRejectsClaims ==
    [][(/\ 0 \in DOMAIN distributor
        /\ distributor[0].clawed_back
        /\ last'.op \in {"NewClaim", "ClaimLocked"})
          => (last'.err = "ClaimExpired" /\ UNCHANGED ledger)]_vars

\* A ClaimLocked of a claimant with locked tokens left was turned away by
\* a clawed-back distributor.
C5_Witness ==
    /\ 0 \in DOMAIN distributor /\ distributor[0].clawed_back
    /\ last.op = "ClaimLocked" /\ last.err = "ClaimExpired"
    /\ << last.signer, 0 >> \in DOMAIN claim_status
    /\ claim_status[<< last.signer, 0 >>].locked_amount_withdrawn
          < claim_status[<< last.signer, 0 >>].locked_amount

\* C6: clawed_back never goes from true to false.
C6_ClawedBackMonotone ==
    [][\A v \in DOMAIN distributor :
          distributor[v].clawed_back
             => (v \in DOMAIN distributor' /\ distributor'[v].clawed_back)]_vars

\* The admin of a clawed-back distributor was changed, which wrote the
\* distributor account again.
C6_Witness ==
    /\ 0 \in DOMAIN distributor /\ distributor[0].clawed_back
    /\ last.op = "SetAdmin" /\ last.err = "Ok"

\* C7: every ClaimStatus has 0 <= locked_amount_withdrawn <= locked_amount.
C7_WithdrawnWithinLocked ==
    \A a \in DOMAIN claim_status :
        /\ 0 <= claim_status[a].locked_amount_withdrawn
        /\ claim_status[a].locked_amount_withdrawn <= claim_status[a].locked_amount

\* A ClaimLocked withdrew the last of a claimant's locked tokens.
C7_Witness ==
    /\ last.op = "ClaimLocked" /\ last.err = "Ok"
    /\ << last.signer, 0 >> \in DOMAIN claim_status
    /\ claim_status[<< last.signer, 0 >>].locked_amount > 0
    /\ claim_status[<< last.signer, 0 >>].locked_amount_withdrawn
          = claim_status[<< last.signer, 0 >>].locked_amount

\* C8: a NewClaim or ClaimLocked that is rejected, at whichever check,
\* leaves the distributor, every ClaimStatus and every balance as they were.
C8_RejectionChangesNothing ==
    [][(last'.op \in {"NewClaim", "ClaimLocked"} /\ last'.err # "Ok")
          => UNCHANGED ledger]_vars

\* A NewClaim was rejected at its last check, after the node count was
\* incremented, the ClaimStatus created and the tokens transferred.
C8_Witness ==
    /\ last.op = "NewClaim" /\ last.err = "ExceededMaxClaim"
    /\ << last.signer, 0 >> \notin DOMAIN claim_status

\* The proof of claim c does not fold to the root of distributor 0.
ProofDoesNotFold(c) ==
    ~verify(c.proof, distributor[0].root,
            LeafHash(c.claimant, c.amount_unlocked, c.amount_locked))

\* C9 as stated: a NewClaim whose proof does not fold to the stored root
\* fails with InvalidProof and changes no account and no balance. Stated by
\* its contrapositive: a NewClaim that ends otherwise had a proof that folds.
C9_BadProofIsInvalidProof ==
    [][/\ (last'.op = "NewClaim" /\ last'.err # "InvalidProof")
            => \A c \in NewClaimInputs :
                  (/\ last'.signer = c.claimant
                   /\ NewClaim(0, c.claimant, c.amount_unlocked, c.amount_locked,
                               c.proof, c.address_tree))
                     => ~ProofDoesNotFold(c)
       /\ (last'.op = "NewClaim" /\ last'.err = "InvalidProof")
            => UNCHANGED ledger]_vars

\* C9 amended: on a distributor that is not clawed back and whose node count
\* is below max_num_nodes, a NewClaim whose proof does not fold to the stored
\* root fails with InvalidProof and changes no account and no balance.
C9_BadProofIsInvalidProofWhenOpen ==
    [][/\ (/\ last'.op = "NewClaim" /\ last'.err # "InvalidProof"
           /\ ~distributor[0].clawed_back
           /\ distributor[0].num_nodes_claimed < distributor[0].max_num_nodes)
            => \A c \in NewClaimInputs :
                  (/\ last'.signer = c.claimant
                   /\ NewClaim(0, c.claimant, c.amount_unlocked, c.amount_locked,
                               c.proof, c.address_tree))
                     => ~ProofDoesNotFold(c)
       /\ (last'.op = "NewClaim" /\ last'.err = "InvalidProof")
            => UNCHANGED ledger]_vars

\* A NewClaim was rejected for its proof by a distributor that had paid
\* one claim and had room for another.
C9_Witness ==
    /\ last.op = "NewClaim" /\ last.err = "InvalidProof"
    /\ distributor[0].num_nodes_claimed = 1
    /\ distributor[0].num_nodes_claimed < distributor[0].max_num_nodes
    /\ distributor[0].total_amount_claimed > 0

\* C10: a NewClaim that succeeds creates the signer's ClaimStatus with the
\* signer as claimant, the two amounts as given and nothing withdrawn, moves
\* amount_unlocked from the vault to the claimant, adds 1 to
\* num_nodes_claimed and adds amount_unlocked to total_amount_claimed.
C10_NewClaimEffect ==
    [][(last'.op = "NewClaim" /\ last'.err = "Ok") =>
       \A c \in NewClaimInputs :
          (/\ last'.signer = c.claimant
           /\ NewClaim(0, c.claimant, c.amount_unlocked, c.amount_locked, c.proof,
                       c.address_tree))
             => (/\ << c.claimant, 0 >> \notin DOMAIN claim_status
                 /\ DOMAIN claim_status' = DOMAIN claim_status \cup {<< c.claimant, 0 >>}
                 /\ claim_status'[<< c.claimant, 0 >>] =
                       [claimant |-> c.claimant,
                        locked_amount |-> c.amount_locked,
                        unlocked_amount |-> c.amount_unlocked,
                        locked_amount_withdrawn |-> 0]
                 /\ \A a \in DOMAIN claim_status : claim_status'[a] = claim_status[a]
                 /\ vault'[0] = vault[0] - c.amount_unlocked
                 /\ paid'[0][c.claimant] = paid[0][c.claimant] + c.amount_unlocked
                 /\ distributor'[0].num_nodes_claimed
                       = distributor[0].num_nodes_claimed + 1
                 /\ distributor'[0].total_amount_claimed
                       = distributor[0].total_amount_claimed + c.amount_unlocked)]_vars

\* A NewClaim with an unlocked and a locked amount succeeded as the first
\* claim of its distributor.
C10_Witness ==
    /\ last.op = "NewClaim" /\ last.err = "Ok"
    /\ << last.signer, 0 >> \in DOMAIN claim_status
    /\ claim_status[<< last.signer, 0 >>].unlocked_amount > 0
    /\ claim_status[<< last.signer, 0 >>].locked_amount > 0
    /\ claim_status[<< last.signer, 0 >>].locked_amount_withdrawn = 0
    /\ distributor[0].num_nodes_claimed = 1
    /\ distributor[0].total_amount_claimed
          = claim_status[<< last.signer, 0 >>].unlocked_amount

\* The amount the vesting calculator gives the ClaimStatus at address a of
\* distributor 0 now.
WithdrawableNow(a) ==
    amount_withdrawable(claim_status[a], now, distributor[0].start_ts,
                        distributor[0].end_ts)

\* C11: a ClaimLocked that succeeds moves exactly the withdrawable amount of
\* the signer's ClaimStatus from the vault to the signer and adds that
\* amount to locked_amount_withdrawn and to total_amount_claimed; at
\* now = end_ts with nothing withdrawn before, that is the whole locked_amount.
C11_ClaimLockedEffect ==
    [][(last'.op = "ClaimLocked" /\ last'.err = "Ok")
          => LET a == << last'.signer, 0 >>
                 amount == WithdrawableNow(a)
             IN /\ a \in DOMAIN claim_status
                /\ amount > 0
                /\ vault'[0] = vault[0] - amount
                /\ paid'[0][last'.signer] = paid[0][last'.signer] + amount
                /\ claim_status' = [claim_status EXCEPT
                      ![a].locked_amount_withdrawn = @ + amount]
                /\ distributor' = [distributor EXCEPT
                      ![0].total_amount_claimed = @ + amount]
                /\ (now = distributor[0].end_ts
                    /\ claim_status[a].locked_amount_withdrawn = 0)
                      => amount = claim_status[a].locked_amount]_vars

\* A ClaimLocked at now = end_ts, the first to withdraw anything from its
\* ClaimStatus, withdrew the whole locked amount.
C11_Witness ==
    /\ last.op = "ClaimLocked" /\ last.err = "Ok"
    /\ now = distributor[0].end_ts
    /\ << last.signer, 0 >> \in DOMAIN claim_status
    /\ claim_status[<< last.signer, 0 >>].locked_amount = 1
    /\ claim_status[<< last.signer, 0 >>].locked_amount_withdrawn = 1
    /\ paid[0][last.signer] = claim_status[<< last.signer, 0 >>].unlocked_amount + 1

\* C12: a ClaimLocked that reaches the vesting calculation (the supplied
\* ClaimStatus names the signer, the distributor is not clawed back) and
\* computes a withdrawable amount of zero fails with
\* InsufficientUnlockedTokens, and a ClaimLocked that fails so changes no
\* account and no balance.
C12_NothingWithdrawableRejected ==
    [][/\ (/\ last'.op = "ClaimLocked" /\ last'.err # "InsufficientUnlockedTokens"
           /\ ~distributor[0].clawed_back)
            => \A address \in Addresses, claim \in ClaimInputs(last'.signer) :
                  (/\ claim.claimant = last'.signer
                   /\ ClaimLocked(0, last'.signer, address, claim))
                     => amount_withdrawable(claim, now, distributor[0].start_ts,
                                            distributor[0].end_ts) > 0
       /\ (last'.op = "ClaimLocked" /\ last'.err = "InsufficientUnlockedTokens")
            => UNCHANGED ledger]_vars

\* A ClaimLocked before start_ts was turned away although the signer's
\* ClaimStatus has locked tokens.
C12_Witness ==
    /\ last.op = "ClaimLocked" /\ last.err = "InsufficientUnlockedTokens"
    /\ now < distributor[0].start_ts
    /\ << last.signer, 0 >> \in DOMAIN claim_status
    /\ claim_status[<< last.signer, 0 >>].locked_amount > 0

\* C13: for a ClaimStatus with locked_amount_withdrawn <= locked_amount and a
\* fixed vesting window, amount_withdrawable never exceeds
\* locked_amount - locked_amount_withdrawn and does not decrease as now grows.
C13_WithdrawableMonotoneAndBounded ==
    [][(call'.fn = "amount_withdrawable" /\ call'.result # None)
          => /\ call'.result
                  <= call'.claim.locked_amount - call'.claim.locked_amount_withdrawn
             /\ call.result # None => call.result <= call'.result]_vars

\* Inside the vesting window part of what is left has become withdrawable.
C13_Witness ==
    /\ call.fn = "amount_withdrawable"
    /\ call.start_ts < call.curr_ts /\ call.curr_ts < call.end_ts
    /\ call.result # None
    /\ 0 < call.result
    /\ call.result < call.claim.locked_amount - call.claim.locked_amount_withdrawn

\* The vested amount of the call, characterized without a division: 0 before
\* start_ts, locked_amount from end_ts on, and in between the one v with
\* v * (end_ts - start_ts) <= locked_amount * (now - start_ts)
\*                          < (v + 1) * (end_ts - start_ts).
IsVestedAmount(v) ==
    IF call.curr_ts < call.start_ts THEN v = 0
    ELSE IF call.curr_ts >= call.end_ts THEN v = call.claim.locked_amount
    ELSE /\ call.end_ts > call.start_ts
         /\ v * (call.end_ts - call.start_ts)
               <= call.claim.locked_amount * (call.curr_ts - call.start_ts)
         /\ call.claim.locked_amount * (call.curr_ts - call.start_ts)
               < (v + 1) * (call.end_ts - call.start_ts)

\* C14: amount_withdrawable is max(0, vested - locked_amount_withdrawn) with
\* vested 0 before start_ts, locked_amount from end_ts on and the floor of
\* locked_amount * (now - start_ts) / (end_ts - start_ts) in between, where
\* end_ts > start_ts.
C14_WithdrawableFormula ==
    (call.fn = "amount_withdrawable" /\ call.result # None)
       => \E v \in 0..call.claim.locked_amount :
             /\ IsVestedAmount(v)
             /\ call.result = IF v > call.claim.locked_amount_withdrawn
                              THEN v - call.claim.locked_amount_withdrawn
                              ELSE 0

\* A call inside the window where the quotient is rounded down and the
\* result is positive.
C14_Witness ==
    /\ call.fn = "amount_withdrawable"
    /\ call.start_ts < call.curr_ts /\ call.curr_ts < call.end_ts
    /\ call.result # None /\ call.result > 0
    /\ (call.claim.locked_amount * (call.curr_ts - call.start_ts))
          % (call.end_ts - call.start_ts) # 0

\* C15: for every recipient list, the proof the tree builder stores for a
\* leaf passes the proof check of NewClaim against the tree's merkle_root.
C15_StoredProofsVerify ==
    (call.fn = "AirdropMerkleTree::new" /\ call.built /\ call.checked # 0)
       => call.ok

\* The stored proof of the third leaf of a tree, whose amounts differ, has
\* been checked.
C15_Witness ==
    /\ call.fn = "AirdropMerkleTree::new" /\ call.built
    /\ call.checked = 3 /\ call.ok
    /\ Len(call.tree.proof[3]) > 0
    /\ TreeNode_amount_unlocked(call.tree_nodes[3])
          # TreeNode_amount_locked(call.tree_nodes[3])

\* The amounts of all categories of the first n nodes, added up.
RECURSIVE CategoryTotal(_, _)
CategoryTotal(tree_nodes, n) ==
    IF n = 0 THEN 0
    ELSE CategoryTotal(tree_nodes, n - 1)
            + tree_nodes[n].total_unlocked_staker + tree_nodes[n].total_locked_staker
            + tree_nodes[n].total_unlocked_searcher + tree_nodes[n].total_locked_searcher
            + tree_nodes[n].total_unlocked_validator + tree_nodes[n].total_locked_validator

\* C17: the max_total_claim of a built tree is the sum over its leaves of
\* amount_unlocked + amount_locked, each the sum over the leaf's categories,
\* its max_num_nodes is the number of leaves, and the distributor created
\* from the tree holds these two values.
C17_TreeTotals ==
    (call.fn = "AirdropMerkleTree::new" /\ call.built)
       => LET total == CategoryTotal(call.tree_nodes, Len(call.tree_nodes))
              count == Len(call.tree_nodes)
          IN /\ call.tree.max_total_claim = total
             /\ call.tree.max_num_nodes = count
             /\ 0 \in DOMAIN distributor
                   => /\ distributor[0].max_total_claim = total
                      /\ distributor[0].max_num_nodes = count

\* The distributor of a tree of three leaves with amounts in both
\* categories has been created.
C17_Witness ==
    /\ call.fn = "AirdropMerkleTree::new" /\ call.built
    /\ 0 \in DOMAIN distributor
    /\ distributor[0].max_num_nodes = 3
    /\ distributor[0].max_total_claim > distributor[0].max_num_nodes
    /\ call.tree_nodes[1].total_unlocked_staker > 0
    /\ call.tree_nodes[1].total_unlocked_validator > 0

\* Claim c carries the proof stored for a leaf of the tree distributor 0
\* commits to, with a claimant or an amount that is not that leaf's.
IsChangedLeaf(c) ==
    LET t == AirdropMerkleTree(CommittedTree(distributor[0]))
    IN \E i \in 1..Len(t.tree_nodes) :
          /\ c.proof = t.proof[i]
          /\ << c.claimant, c.amount_unlocked, c.amount_locked >>
                # << t.tree_nodes[i].claimant,
                     TreeNode_amount_unlocked(t.tree_nodes[i]),
                     TreeNode_amount_locked(t.tree_nodes[i]) >>

\* C16: a NewClaim that carries a leaf's stored proof with another signer
\* or another amount_unlocked or amount_locked than the leaf's does not pass
\* the proof check: on a distributor that takes claims (not clawed back,
\* node count below max_num_nodes) it fails with InvalidProof. Stated by its
\* contrapositive: a NewClaim that ends otherwise carried no changed leaf.
C16_ChangedLeafIsInvalidProof ==
    [][(/\ last'.op = "NewClaim" /\ last'.err # "InvalidProof"
        /\ ~distributor[0].clawed_back
        /\ distributor[0].num_nodes_claimed < distributor[0].max_num_nodes)
          => \A c \in NewClaimInputs :
                (/\ last'.signer = c.claimant
                 /\ NewClaim(0, c.claimant, c.amount_unlocked, c.amount_locked,
                             c.proof, c.address_tree))
                   => ~IsChangedLeaf(c)]_vars

\* Key 3, which is no recipient, signed a NewClaim with a recipient's
\* amounts and stored proof and was turned away for the proof.
C16_Witness ==
    /\ last.op = "NewClaim" /\ last.err = "InvalidProof" /\ last.signer = 3
    /\ ~distributor[0].clawed_back
    /\ distributor[0].num_nodes_claimed < distributor[0].max_num_nodes

\* C18: a NewClaim on a distributor that is not clawed back fails with
\* ArithmeticError when num_nodes_claimed cannot be incremented and with
\* MaxNodesExceeded when num_nodes_claimed equals max_num_nodes, whatever
\* its proof, and num_nodes_claimed, like every other account, is unchanged.
C18_NodeBoundRejects ==
    [][(last'.op = "NewClaim" /\ ~distributor[0].clawed_back)
          => /\ distributor[0].num_nodes_claimed = U64_MAX
                   => (last'.err = "ArithmeticError" /\ UNCHANGED ledger)
             /\ (/\ distributor[0].num_nodes_claimed < U64_MAX
                 /\ distributor[0].num_nodes_claimed = distributor[0].max_num_nodes)
                   => (last'.err = "MaxNodesExceeded" /\ UNCHANGED ledger)]_vars

\* A NewClaim found the node counter at the largest u64 and was turned away
\* for the overflow.
C18_Witness ==
    /\ last.op = "NewClaim" /\ last.err = "ArithmeticError"
    /\ distributor[0].num_nodes_claimed = U64_MAX

\* A recipient with a valid proof and funds in the vault was turned away at
\* the node bound.
C18_WitnessBound ==
    /\ last.op = "NewClaim" /\ last.err = "MaxNodesExceeded"
    /\ distributor[0].num_nodes_claimed = distributor[0].max_num_nodes
    /\ << last.signer, 0 >> \notin DOMAIN claim_status
    /\ last.signer \in {1, 2}
    /\ vault[0] >= 1

\* The payout would raise total_amount_claimed of distributor 0 above
\* max_total_claim.
WouldExceedMaxClaim(payout) ==
    distributor[0].total_amount_claimed + payout > distributor[0].max_total_claim

\* C19: a NewClaim or ClaimLocked that passes every check before the
\* comparison of total_amount_claimed with max_total_claim fails with
\* ExceededMaxClaim exactly when its payout would raise the total above
\* max_total_claim, and then the transfer, the ClaimStatus and both counters
\* are as before the call.
C19_ExceededMaxClaimRejects ==
    [][/\ (last'.op = "NewClaim" /\ last'.err \in {"Ok", "ExceededMaxClaim"})
            => \A c \in NewClaimInputs :
                  (/\ last'.signer = c.claimant
                   /\ NewClaim(0, c.claimant, c.amount_unlocked, c.amount_locked,
                               c.proof, c.address_tree))
                     => (last'.err = "ExceededMaxClaim"
                            <=> WouldExceedMaxClaim(c.amount_unlocked))
       /\ (last'.op = "ClaimLocked" /\ last'.err \in {"Ok", "ExceededMaxClaim"})
            => \A address \in Addresses, claim \in ClaimInputs(last'.signer) :
                  ClaimLocked(0, last'.signer, address, claim)
                     => (last'.err = "ExceededMaxClaim"
                            <=> WouldExceedMaxClaim(
                                   amount_withdrawable(claim, now,
                                       distributor[0].start_ts, distributor[0].end_ts)))
       /\ (last'.op \in {"NewClaim", "ClaimLocked"} /\ last'.err = "ExceededMaxClaim")
            => UNCHANGED ledger]_vars

\* A ClaimLocked of vested tokens that the vault holds was turned away
\* because the distributor's total was at max_total_claim.
C19_Witness ==
    /\ last.op = "ClaimLocked" /\ last.err = "ExceededMaxClaim"
    /\ << last.signer, 0 >> \in DOMAIN claim_status
    /\ WithdrawableNow(<< last.signer, 0 >>) > 0
    /\ vault[0] >= WithdrawableNow(<< last.signer, 0 >>)
    /\ distributor[0].total_amount_claimed = distributor[0].max_total_claim

\* C20: a ClaimLocked whose supplied ClaimStatus names another claimant than
\* the signer fails with ClaimExpired and changes no account and no balance,
\* and no ClaimLocked changes the ClaimStatus of another claimant than its
\* signer. The first part is stated by its contrapositive: a ClaimLocked
\* that ends otherwise was supplied a ClaimStatus naming its signer.
C20_ForeignClaimStatusRejected ==
    [][last'.op = "ClaimLocked"
          => /\ last'.err # "ClaimExpired"
                   => \A address \in Addresses, claim \in ClaimInputs(last'.signer) :
                         ClaimLocked(0, last'.signer, address, claim)
                            => claim.claimant = last'.signer
             /\ last'.err = "ClaimExpired" => UNCHANGED ledger
             /\ \A a \in DOMAIN claim_status :
                   claim_status[a].claimant # last'.signer
                      => (a \in DOMAIN claim_status'
                          /\ claim_status'[a] = claim_status[a])]_vars

\* A ClaimLocked was turned away on a distributor that is not clawed back
\* while another claimant's ClaimStatus had tokens to withdraw and the vault
\* held them.
C20_Witness ==
    /\ last.op = "ClaimLocked" /\ last.err = "ClaimExpired"
    /\ ~distributor[0].clawed_back
    /\ \E a \in DOMAIN claim_status :
          /\ claim_status[a].claimant # last.signer
          /\ WithdrawableNow(a) > 0
          /\ vault[0] >= WithdrawableNow(a)

\* C21: a NewDistributor that succeeds creates the distributor account with
\* the root, max_total_claim, max_num_nodes and the three timestamps of its
\* instruction data, the mint, the signer as admin and the clawback receiver
\* supplied, with total_amount_claimed = 0, num_nodes_claimed = 0 and
\* clawed_back = false.
C21_NewDistributorStores ==
    [][(last'.op = "NewDistributor" /\ last'.err = "Ok") =>
       \A clawback_receiver \in AdminKeys, args \in CommandDistributorInputs :
          NewDistributorTx(0, last'.signer, Mint, clawback_receiver, args)
             => /\ 0 \notin DOMAIN distributor
                /\ distributor'[0].root = args.root
                /\ distributor'[0].mint = Mint
                /\ distributor'[0].admin = last'.signer
                /\ distributor'[0].clawback_receiver = clawback_receiver
                /\ distributor'[0].start_ts = args.start_vesting_ts
                /\ distributor'[0].end_ts = args.end_vesting_ts
                /\ distributor'[0].clawback_start_ts = args.clawback_start_ts
                /\ distributor'[0].max_total_claim = args.max_total_claim
                /\ distributor'[0].max_num_nodes = args.max_num_nodes
                /\ distributor'[0].total_amount_claimed = 0
                /\ distributor'[0].num_nodes_claimed = 0
                /\ distributor'[0].clawed_back = FALSE]_vars

\* The command has created a distributor whose clawback receiver is not
\* its admin.
C21_Witness ==
    /\ call.fn = "process_new_distributor" /\ call.pc = "exit" /\ call.exit = 0
    /\ call.tx = "Ok"
    /\ last.op = "NewDistributor" /\ last.err = "Ok"
    /\ distributor[0].admin = call.keypair
    /\ distributor[0].clawback_receiver = call.clawback_receiver
    /\ distributor[0].clawback_receiver # distributor[0].admin

\* The distributor account d holds what the running new-distributor
\* command was given.
StoredEqualsSupplied(d) ==
    /\ d.root = call.args.root
    /\ d.max_total_claim = call.args.max_total_claim
    /\ d.max_num_nodes = call.args.max_num_nodes
    /\ d.start_ts = call.args.start_vesting_ts
    /\ d.end_ts = call.args.end_vesting_ts
    /\ d.clawback_start_ts = call.args.clawback_start_ts
    /\ d.clawback_receiver = call.clawback_receiver
    /\ d.admin = call.keypair

C23_RejectedCommandFails ==
    (/\ call.fn \in {"process_new_distributor", "process_claim", "process_clawback",
                     "process_set_admin"}
     /\ call.pc = "exit"
     /\ call.tx \notin {"none", "Ok"})
       => call.exit # 0

\* C24: in the claim command a first lookup that reports not found is
\* followed by NewClaim, then the second lookup, and only then ClaimLocked;
\* a first lookup that fails otherwise ends the command with nothing
\* submitted; and whenever the command submits ClaimLocked the claimant's
\* ClaimStatus exists.
C24_ClaimChoreography ==
    [][call'.fn = "process_claim"
          => /\ call'.lookup = "error"
                   => (call'.submitted = << >> /\ call'.pc = "exit" /\ call'.exit = 101)
             /\ call'.lookup = "not found"
                   => /\ call'.submitted \in {<< >>, << "NewClaim" >>,
                                              << "NewClaim", "ClaimLocked" >>}
                      /\ call'.requeried => call'.submitted # << >>
                      /\ call'.submitted = << "NewClaim", "ClaimLocked" >>
                            => call'.requeried
             /\ call'.lookup = "found"
                   => call'.submitted \in {<< >>, << "ClaimLocked" >>}
             /\ (call.fn = "process_claim" /\ call.pc = "claim_locked"
                 /\ Len(call'.submitted) > Len(call.submitted))
                   => << call.keypair, 0 >> \in DOMAIN claim_status]_vars

\* A claim command found no ClaimStatus, created it with NewClaim, looked
\* again and withdrew vested tokens with ClaimLocked.
C24_Witness ==
    /\ call.fn = "process_claim" /\ call.pc = "exit" /\ call.exit = 0
    /\ call.lookup = "not found" /\ call.requeried
    /\ call.submitted = << "NewClaim", "ClaimLocked" >>
    /\ claim_status[<< call.keypair, 0 >>].locked_amount_withdrawn > 0

C27_SetAdminEffect ==
    [][/\ last'.op = "SetAdmin"
            => IF last'.signer = distributor[0].admin
               THEN /\ last'.err = "Ok"
                    /\ \A new_admin \in AdminKeys :
                          SetAdmin(0, last'.signer, new_admin)
                             => distributor' =
                                   [distributor EXCEPT ![0].admin = new_admin]
                    /\ UNCHANGED << claim_status, vault, paid, swept >>
               ELSE last'.err # "Ok" /\ UNCHANGED ledger
       /\ (/\ last'.op \in {"SetAdmin", "Clawback"}
           /\ last'.signer # distributor[0].admin)
            => (last'.err # "Ok" /\ UNCHANGED ledger)]_vars

\* The key that created the distributor handed it to another admin and
\* has been turned away with a Clawback after clawback_start_ts.
C27_Witness ==
    /\ last.op = "Clawback" /\ last.err = "Unauthorized"
    /\ last.signer = distributor[0].clawback_receiver
    /\ distributor[0].admin # last.signer
    /\ now >= distributor[0].clawback_start_ts
    /\ ~distributor[0].clawed_back

\* C28: the balance of a vault goes down only in a NewClaim, a ClaimLocked
\* or a Clawback that succeeds, by amount_unlocked in a NewClaim and by the
\* withdrawable amount in a ClaimLocked; NewDistributor, SetAdmin and every
\* rejected instruction leave every vault balance as it was.
C28_VaultDebits ==
    [][/\ (\E v \in Versions : vault'[v] < vault[v])
            => (last'.err = "Ok" /\ last'.op \in {"NewClaim", "ClaimLocked", "Clawback"})
       /\ (last'.op = "NewClaim" /\ last'.err = "Ok")
            => vault'[0] = vault[0] - claim_status'[<< last'.signer, 0 >>].unlocked_amount
       /\ (last'.op = "ClaimLocked" /\ last'.err = "Ok")
            => vault'[0] = vault[0] - WithdrawableNow(<< last'.signer, 0 >>)
       /\ (last'.op \in {"NewDistributor", "SetAdmin"} \/ last'.err # "Ok")
            => vault' = vault]_vars

\* A NewClaim whose handler had transferred its unlocked amount was
\* rejected at the comparison with max_total_claim, and the vault holds
\* everything that was deposited and not paid out.
C28_Witness ==
    /\ last.op = "NewClaim" /\ last.err = "ExceededMaxClaim"
    /\ paid[0][last.signer] = 0
    /\ vault[0] > 0
    /\ vault[0] = deposited[0] - (paid[0][1] + paid[0][2] + paid[0][3]) - swept[0]

\* C29: with NewClaim and ClaimLocked transactions of different claimants
\* in flight together and processed in any order, the counters of the
\* distributor are those of the committed transactions run one after
\* another: num_nodes_claimed is the number of ClaimStatus accounts created,
\* total_amount_claimed is the sum of all tokens paid out, and neither
\* passes its maximum.
C29_CountersOfCommitted ==
    0 \in DOMAIN distributor
       => /\ distributor[0].num_nodes_claimed = Cardinality(DOMAIN claim_status)
          /\ distributor[0].total_amount_claimed
                = paid[0][1] + paid[0][2] + paid[0][3]
          /\ distributor[0].num_nodes_claimed <= distributor[0].max_num_nodes
          /\ distributor[0].total_amount_claimed <= distributor[0].max_total_claim

\* The NewClaim of claimant 2 was processed while a ClaimLocked of
\* claimant 1 was in flight, which has vested tokens to withdraw and a
\* vault that holds them.
C29_Witness ==
    /\ last.op = "NewClaim" /\ last.err = "Ok" /\ last.signer = 2
    /\ Len(inflight) = 1
    /\ "claim" \in DOMAIN inflight[1]
    /\ inflight[1].claimant = 1
    /\ inflight[1].claim = claim_status[<< 1, 0 >>]
    /\ WithdrawableNow(<< 1, 0 >>) > 0
    /\ vault[0] >= WithdrawableNow(<< 1, 0 >>)
    /\ distributor[0].num_nodes_claimed = 2

\* C30: a ClaimStatus, once created, stays at its address with the
\* claimant, unlocked_amount and locked_amount it was created with, and
\* its locked_amount_withdrawn never goes down; only a successful
\* ClaimLocked changes a ClaimStatus, it changes one, and what it changes is
\* locked_amount_withdrawn, which it makes larger.
C30_ClaimStatusFrame ==
    [][/\ \A a \in DOMAIN claim_status :
             /\ a \in DOMAIN claim_status'
             /\ claim_status'[a].claimant = claim_status[a].claimant
             /\ claim_status'[a].unlocked_amount = claim_status[a].unlocked_amount
             /\ claim_status'[a].locked_amount = claim_status[a].locked_amount
             /\ claim_status'[a].locked_amount_withdrawn
                   >= claim_status[a].locked_amount_withdrawn
             /\ claim_status'[a] # claim_status[a]
                   => /\ last'.op = "ClaimLocked" /\ last'.err = "Ok"
                      /\ claim_status'[a].locked_amount_withdrawn
                            > claim_status[a].locked_amount_withdrawn
                      /\ \A b \in DOMAIN claim_status \ {a} :
                            claim_status'[b] = claim_status[b]
       /\ (last'.op = "ClaimLocked" /\ last'.err = "Ok")
             => /\ DOMAIN claim_status' = DOMAIN claim_status
                /\ \E a \in DOMAIN claim_status :
                      claim_status'[a].locked_amount_withdrawn
                        > claim_status[a].locked_amount_withdrawn]_vars

\* A ClaimLocked half-way through the vesting window withdrew one of the
\* two locked tokens of claimant 1, whose ClaimStatus still holds what the
\* leaf of TreeA gave it.
C30_Witness ==
    /\ last.op = "ClaimLocked" /\ last.err = "Ok" /\ last.signer = 1
    /\ now > distributor[0].start_ts /\ now < distributor[0].end_ts
    /\ claim_status[<< 1, 0 >>].claimant = 1
    /\ claim_status[<< 1, 0 >>].unlocked_amount = TreeNode_amount_unlocked(TreeA[1])
    /\ claim_status[<< 1, 0 >>].locked_amount = TreeNode_amount_locked(TreeA[1])
    /\ claim_status[<< 1, 0 >>].locked_amount = 2
    /\ claim_status[<< 1, 0 >>].locked_amount_withdrawn = 1

\* The checks of handle_new_claim that come before the vault balance pass
\* for request c in the current state.
ReachesVaultCheck(c) ==
    /\ 0 \in DOMAIN distributor
    /\ ~distributor[0].clawed_back
    /\ distributor[0].num_nodes_claimed < distributor[0].max_num_nodes
    /\ verify(c.proof, distributor[0].root,
              LeafHash(c.claimant, c.amount_unlocked, c.amount_locked))
    /\ c.address_tree = "ADDRESS_TREE_V2"

\* C31: a NewClaim that reaches the vault check with amount_unlocked above
\* the vault balance returns InsufficientUnlockedTokens with no ClaimStatus
\* built; the rejected transaction changes no account, so a claimant who
\* had no ClaimStatus has none afterwards; and the same NewClaim sent again
\* when the vault covers amount_unlocked (the distributor not clawed back
\* and both counters with room) succeeds and creates the ClaimStatus.
C31_ShortVaultRejectedAndRetried ==
    /\ [](\A c \in NewClaimInputs :
            (ReachesVaultCheck(c) /\ c.amount_unlocked > vault[0])
               => LET r == handle_new_claim(0, c.claimant, c.amount_unlocked,
                                            c.amount_locked, c.proof, c.address_tree)
                  IN r.err = "InsufficientUnlockedTokens" /\ r.status = << >>)
    /\ [][/\ (last'.op = "NewClaim" /\ last'.err = "InsufficientUnlockedTokens")
                => UNCHANGED ledger
          /\ (call'.fn = "process_new_claim" /\ call' # call
                  /\ call'.err = "InsufficientUnlockedTokens" /\ call'.fresh)
                => << call'.request.claimant, 0 >> \notin DOMAIN claim_status'
          /\ (call.fn = "process_new_claim" /\ call' # call /\ call'.retried
                  /\ call.fresh
                  /\ vault[0] >= call.request.amount_unlocked
                  /\ ~distributor[0].clawed_back
                  /\ distributor[0].num_nodes_claimed < distributor[0].max_num_nodes
                  /\ distributor[0].total_amount_claimed + call.request.amount_unlocked
                        <= distributor[0].max_total_claim)
                => /\ call'.err = "Ok"
                   /\ << call.request.claimant, 0 >> \in DOMAIN claim_status'
                   /\ << call.request.claimant, 0 >> \notin DOMAIN claim_status]_vars

\* The NewClaim of a recipient, turned away while the vault was short, was
\* sent again after the vault was funded and created the ClaimStatus.
C31_Witness ==
    /\ call.fn = "process_new_claim" /\ call.retried /\ call.fresh
    /\ call.err = "Ok"
    /\ last.op = "NewClaim" /\ last.signer = call.request.claimant
    /\ call.request.amount_unlocked > 0
    /\ << call.request.claimant, 0 >> \in DOMAIN claim_status
    /\ deposited[0] > 0

\* C32: in a built tree of two or more leaves the proof stored for each
\* leaf is non-empty; the empty proof and every proper prefix of the
\* stored proof fail verify against the tree's root; and a NewClaim for
\* the leaf with such a proof that reaches the proof check (its distributor
\* not clawed back, the node counter with room) returns InvalidProof.
C32_ShortProofsFail ==
    (call.fn = "AirdropMerkleTree::new" /\ call.built /\ Len(call.tree_nodes) >= 2)
       => \A i \in 1..Len(call.tree_nodes) :
             LET node == call.tree.tree_nodes[i]
                 stored == call.tree.proof[i]
             IN /\ Len(stored) > 0
                /\ \A n \in 0..(Len(stored) - 1) :
                      /\ ~verify(SubSeq(stored, 1, n), call.tree.merkle_root,
                                 NodeLeaf(node))
                      /\ (/\ 0 \in DOMAIN distributor
                          /\ ~distributor[0].clawed_back
                          /\ distributor[0].num_nodes_claimed
                                < distributor[0].max_num_nodes)
                            => handle_new_claim(0, node.claimant,
                                                TreeNode_amount_unlocked(node),
                                                TreeNode_amount_locked(node),
                                                SubSeq(stored, 1, n),
                                                "ADDRESS_TREE_V2").err = "InvalidProof"

\* In a tree of three leaves a recipient whose stored proof has two hashes
\* sent NewClaim with a shorter proof, after another recipient had claimed,
\* and got InvalidProof.
C32_Witness ==
    /\ call.fn = "AirdropMerkleTree::new" /\ call.built
    /\ Len(call.tree_nodes) = 3
    /\ last.op = "NewClaim" /\ last.err = "InvalidProof"
    /\ \E i \in 1..3 :
          /\ call.tree_nodes[i].claimant = last.signer
          /\ Len(call.tree.proof[i]) = 2
    /\ distributor[0].num_nodes_claimed = 1
    /\ << last.signer, 0 >> \notin DOMAIN claim_status

\* What the ClaimStatus of key k at distributor v records as handed out.
RecordedPayout(k, v) ==
    IF << k, v >> \in DOMAIN claim_status
    THEN claim_status[<< k, v >>].unlocked_amount
            + claim_status[<< k, v >>].locked_amount_withdrawn
    ELSE 0

\* C33: the total_amount_claimed of every distributor is the sum, over the
\* ClaimStatus accounts of that distributor, of unlocked_amount +
\* locked_amount_withdrawn.
C33_TotalIsSumOfRecords ==
    \A v \in DOMAIN distributor :
       distributor[v].total_amount_claimed
          = RecordedPayout(1, v) + RecordedPayout(2, v) + RecordedPayout(3, v)

\* The ClaimStatus accounts of distributor v.
RecordsOf(v) == {a \in DOMAIN claim_status : a[2] = v}

\* C34: the num_nodes_claimed of every distributor is the number of its
\* ClaimStatus accounts; it goes up, by one, exactly in the step that
\* creates one, and no other step (ClaimLocked, a rejected NewClaim,
\* Clawback, SetAdmin) changes it.
C34_NodesAreRecords ==
    /\ [](\A v \in DOMAIN distributor :
            distributor[v].num_nodes_claimed = Cardinality(RecordsOf(v)))
    /\ [][\A v \in DOMAIN distributor :
            /\ distributor'[v].num_nodes_claimed
                  = distributor[v].num_nodes_claimed
                      + Cardinality(RecordsOf(v)') - Cardinality(RecordsOf(v))
            /\ Cardinality(RecordsOf(v)') - Cardinality(RecordsOf(v)) \in {0, 1}
            /\ distributor'[v].num_nodes_claimed # distributor[v].num_nodes_claimed
                  => (last'.op = "NewClaim" /\ last'.err = "Ok")
            /\ (last'.op = "NewClaim" /\ last'.err = "Ok")
                  => \E w \in DOMAIN distributor :
                        distributor'[w].num_nodes_claimed
                           = distributor[w].num_nodes_claimed + 1]_vars

\* A NewClaim was turned away after a Clawback, which followed a
\* ClaimLocked: the counter still shows the one ClaimStatus created.
C34_Witness ==
    /\ last.op = "NewClaim" /\ last.err = "ClaimExpired"
    /\ distributor[0].clawed_back
    /\ distributor[0].num_nodes_claimed = 1
    /\ Cardinality(RecordsOf(0)) = 1
    /\ \E a \in RecordsOf(0) : claim_status[a].locked_amount_withdrawn > 0

\* Tokens moved from the vault of distributor v to claimants.
PaidOut(v) == paid[v][1] + paid[v][2] + paid[v][3]

\* C35: for every vault, the balance plus the tokens paid to claimants
\* plus the tokens swept to the clawback receiver is what was deposited,
\* no balance is negative, and the tokens paid to claimants from the vault
\* of a distributor are its total_amount_claimed.
C35_TokensConserved ==
    /\ \A v \in Versions :
          /\ vault[v] + PaidOut(v) + swept[v] = deposited[v]
          /\ vault[v] >= 0 /\ swept[v] >= 0
          /\ \A k \in Keys : paid[v][k] >= 0
    /\ \A v \in Versions \ DOMAIN distributor : PaidOut(v) = 0 /\ swept[v] = 0
    /\ \A v \in DOMAIN distributor : PaidOut(v) = distributor[v].total_amount_claimed

\* After claimants were paid unlocked and vested tokens, a Clawback swept
\* the rest of the vault.
C35_Witness ==
    /\ last.op = "Clawback" /\ last.err = "Ok"
    /\ swept[0] > 0 /\ vault[0] = 0
    /\ PaidOut(0) >= 2
    /\ \E a \in RecordsOf(0) : claim_status[a].locked_amount_withdrawn > 0
    /\ deposited[0] = swept[0] + distributor[0].total_amount_claimed

\* v is the vested part of locked at time t for the window from s to e,
\* stated without a division: nothing before s, all of it from e on, and
\* in between the one v with v * (e - s) <= locked * (t - s) < (v + 1) * (e - s).
IsVestedAt(v, locked, t, s, e) ==
    IF t < s THEN v = 0
    ELSE IF t >= e THEN v = locked
    ELSE /\ v * (e - s) <= locked * (t - s)
         /\ locked * (t - s) < (v + 1) * (e - s)

\* C36: after a ClaimLocked that succeeds at time now, the
\* locked_amount_withdrawn of the signer's ClaimStatus is the vested amount
\* at now over the window of the distributor, whatever was withdrawn
\* before, and the signer has received unlocked_amount plus that amount in
\* all; so after a ClaimLocked that succeeds at now >= end_ts the whole
\* locked_amount has been withdrawn, in one withdrawal or in several.
C36_WithdrawnIsVested ==
    [][(last'.op = "ClaimLocked" /\ last'.err = "Ok")
          => LET a == << last'.signer, 0 >>
                 d == distributor[0]
                 withdrawn == claim_status'[a].locked_amount_withdrawn
             IN /\ IsVestedAt(withdrawn, claim_status[a].locked_amount, now,
                              d.start_ts, d.end_ts)
                /\ paid'[0][last'.signer] = claim_status[a].unlocked_amount + withdrawn
                /\ now >= d.end_ts => withdrawn = claim_status[a].locked_amount]_vars

\* Over a window from 0 to 3 a ClaimLocked at now = 2 left one of two
\* locked tokens withdrawn, the amount vested at 2, rounded down.
C36_Witness ==
    /\ last.op = "ClaimLocked" /\ last.err = "Ok"
    /\ distributor[0].start_ts = 0 /\ distributor[0].end_ts = 3
    /\ now = 2
    /\ claim_status[<< last.signer, 0 >>].locked_amount = 2
    /\ claim_status[<< last.signer, 0 >>].locked_amount_withdrawn = 1

\* Distributor v holds the root, max_total_claim and max_num_nodes of its
\* tree, max_total_claim tokens were put in its vault, and it has not been
\* clawed back.
FundedFromTree(v) ==
    LET t == AirdropMerkleTree(CommittedTree(distributor[v]))
    IN /\ distributor[v].max_total_claim = t.max_total_claim
       /\ distributor[v].max_num_nodes = t.max_num_nodes
       /\ deposited[v] = t.max_total_claim
       /\ ~distributor[v].clawed_back
       /\ swept[v] = 0

\* C37: for a distributor created from its tree and funded with
\* max_total_claim, with no Clawback: the NewClaim of every recipient that
\* has no ClaimStatus yet succeeds, whatever others have done before; from
\* end_ts on the ClaimLocked of every recipient with locked tokens left to
\* withdraw succeeds; and when every recipient has claimed and withdrawn
\* all its locked tokens, total_amount_claimed = max_total_claim,
\* num_nodes_claimed = max_num_nodes and the vault is empty.
C37_FundedAirdropCompletes ==
    \A v \in DOMAIN distributor :
       FundedFromTree(v)
          => LET t == AirdropMerkleTree(CommittedTree(distributor[v]))
                 leaves == 1..Len(t.tree_nodes)
                 address(i) == << t.tree_nodes[i].claimant, v >>
             IN /\ \A i \in leaves :
                      address(i) \notin DOMAIN claim_status
                         => handle_new_claim(v, t.tree_nodes[i].claimant,
                                             TreeNode_amount_unlocked(t.tree_nodes[i]),
                                             TreeNode_amount_locked(t.tree_nodes[i]),
                                             t.proof[i], "ADDRESS_TREE_V2").err = "Ok"
                /\ \A i \in leaves :
                      (/\ address(i) \in DOMAIN claim_status
                       /\ now >= distributor[v].end_ts
                       /\ claim_status[address(i)].locked_amount_withdrawn
                             < claim_status[address(i)].locked_amount)
                         => handle_claim_locked(v, t.tree_nodes[i].claimant, address(i),
                                                claim_status[address(i)]).err = "Ok"
                /\ (\A i \in leaves :
                       /\ address(i) \in DOMAIN claim_status
                       /\ claim_status[address(i)].locked_amount_withdrawn
                             = claim_status[address(i)].locked_amount)
                      => /\ distributor[v].total_amount_claimed
                               = distributor[v].max_total_claim
                         /\ distributor[v].num_nodes_claimed
                               = distributor[v].max_num_nodes
                         /\ vault[v] = 0

\* The five guards of NewClaim, as request c meets them in the current
\* state of distributor 0, in the order the claim gives them.
GuardErrors ==
    << "ClaimExpired", "MaxNodesExceeded", "InvalidProof", "InvalidAddressTree",
       "InsufficientUnlockedTokens" >>

GuardFails(c, g) ==
    CASE g = 1 -> distributor[0].clawed_back
      [] g = 2 -> distributor[0].num_nodes_claimed >= distributor[0].max_num_nodes
      [] g = 3 -> ~verify(c.proof, distributor[0].root,
                          LeafHash(c.claimant, c.amount_unlocked, c.amount_locked))
      [] g = 4 -> c.address_tree # "ADDRESS_TREE_V2"
      [] g = 5 -> vault[0] < c.amount_unlocked

\* C38: a NewClaim reports the first of its guards that fails, in the
\* order clawed_back (ClaimExpired), node bound (MaxNodesExceeded), proof
\* (InvalidProof), address tree (InvalidAddressTree), vault balance
\* (InsufficientUnlockedTokens), whichever later guards fail as well, and
\* none of these five errors when all five guards pass.  Stated for node
\* counters below the largest u64, where the increment cannot overflow.
\* A NewClaim signed by key 3, which is in no tree and so has no valid
\* proof, gets ClaimExpired from a clawed-back distributor, else
\* MaxNodesExceeded from a full one, else InvalidProof.
C38_FirstFailingGuard ==
    /\ [](0 \in DOMAIN distributor /\ distributor[0].num_nodes_claimed < U64_MAX
            => \A c \in NewClaimInputs :
                  LET err == handle_new_claim(0, c.claimant, c.amount_unlocked,
                                              c.amount_locked, c.proof,
                                              c.address_tree).err
                      failing == {g \in 1..5 : GuardFails(c, g)}
                  IN IF failing = {}
                     THEN \A g \in 1..5 : err # GuardErrors[g]
                     ELSE \E g \in failing :
                             /\ \A h \in failing : g <= h
                             /\ err = GuardErrors[g])
    /\ [][(last'.op = "NewClaim" /\ last'.signer = 3
                /\ distributor[0].num_nodes_claimed < U64_MAX)
             => last'.err = IF distributor[0].clawed_back THEN "ClaimExpired"
                            ELSE IF distributor[0].num_nodes_claimed
                                      >= distributor[0].max_num_nodes
                                 THEN "MaxNodesExceeded"
                            ELSE "InvalidProof"]_vars

\* A NewClaim signed by key 3, which has no valid proof, was sent to a
\* clawed-back distributor whose node counter is full and whose vault is
\* empty, and got ClaimExpired.
C38_Witness ==
    /\ last.op = "NewClaim" /\ last.signer = 3 /\ last.err = "ClaimExpired"
    /\ distributor[0].clawed_back
    /\ distributor[0].num_nodes_claimed = distributor[0].max_num_nodes
    /\ vault[0] = 0

\* C39: for every ClaimStatus with locked_amount_withdrawn <=
\* locked_amount, every vesting window and every time, the withdrawable
\* amount added to locked_amount_withdrawn does not overflow and does not
\* pass locked_amount; so a ClaimLocked of such a ClaimStatus, in a
\* distributor whose total has room for it and whose vault holds it, ends
\* with Ok or, when nothing is withdrawable, InsufficientUnlockedTokens,
\* never with ArithmeticError or ExceededMaxClaim, and leaves
\* locked_amount_withdrawn <= locked_amount.
C39_AddedAmountFits ==
    /\ [](\A a \in DOMAIN claim_status :
            LET amount == amount_withdrawable(claim_status[a], now,
                                              distributor[0].start_ts,
                                              distributor[0].end_ts)
            IN /\ claim_status[a].locked_amount_withdrawn <= claim_status[a].locked_amount
               /\ amount >= 0
               /\ checked_add(claim_status[a].locked_amount_withdrawn, amount) # None
               /\ claim_status[a].locked_amount_withdrawn + amount
                     <= claim_status[a].locked_amount)
    /\ [][last'.op = "ClaimLocked"
             => last'.err = IF WithdrawableNow(<< 1, 0 >>) > 0
                            THEN "Ok" ELSE "InsufficientUnlockedTokens"]_vars

\* A ClaimStatus with the largest u64 locked had what was left of it
\* withdrawn from end_ts on, which brought locked_amount_withdrawn to the
\* largest u64.
C39_Witness ==
    /\ last.op = "ClaimLocked" /\ last.err = "Ok"
    /\ claim_status[<< 1, 0 >>].locked_amount = U64_MAX
    /\ claim_status[<< 1, 0 >>].locked_amount_withdrawn = U64_MAX
    /\ deposited[0] = U64_MAX
    /\ vault[0] = 0
    /\ now >= distributor[0].end_ts

\* C40: the ClaimStatus contents and validity proof the claim command
\* submits with ClaimLocked are those of the account at the claim address
\* of the invoking claimant and the distributor, whichever other
\* ClaimStatus accounts of the program exist.
C40_OwnSnapshotSubmitted ==
    (call.fn = "process_claim" /\ call.snapshot # << >>)
       => call.snapshot = << << call.keypair, 0 >> >>

====
